---------------------------- MODULE Spec2Model ----------------------------
(***************************************************************************)
(* Verification model of the Neurax autonomous engagement core.            *)
(*                                                                         *)
(*   Spec     AutonomousService (server/services/autonomous.ts): start /   *)
(*            stop, the recurring cycle timer, the hourly reset timer and  *)
(*            the cycles themselves, one step per await point.             *)
(*   SpecGen  AIService.generateTextContent (the generation fallback       *)
(*            chain): one call, one step per provider response, on texts   *)
(*            held as sequences of UTF-16 code units.                      *)
(***************************************************************************)
EXTENDS Integers, Sequences, FiniteSets, TLC

(***************************************************************************)
(* Bounds of the model.                                                    *)
(***************************************************************************)
MaxCycles   == 2      \* cycles ever begun in one behaviour
MaxMentions == 1      \* mentions returned by one getMentions call
MaxTimeline == 1      \* tweets returned by one getHomeTimeline call
MaxK        == 1      \* largest maxRepliesPerHour of a config
MaxTextLen  == 340    \* longest provider text
MaxTopicLen == 300    \* longest topic
MaxRequested == 1000  \* largest requested maxLength
MaxHours    == 2      \* hours of clock time followed
ClockStep   == 3600   \* seconds by which the clock advances in one step
MaxAppends  == 3      \* activity records added to the buffer in one behaviour

(***************************************************************************)
(* Program constants.                                                      *)
(***************************************************************************)
ActivityCap == 100    \* addActivity keeps the last 100 records

NoTimer == 0          \* intervalId = null

Min2(a, b) == IF a < b THEN a ELSE b
Max2(a, b) == IF a > b THEN a ELSE b

Hour == 3600          \* period of the reset timer, 60 * 60 * 1000 ms, in seconds

(***************************************************************************)
(* Strings.  A text is the sequence of its UTF-16 code units.              *)
(***************************************************************************)
UpperCase == <<"A", "B", "C", "D", "E", "F", "G", "H", "I", "J", "K", "L", "M",
               "N", "O", "P", "Q", "R", "S", "T", "U", "V", "W", "X", "Y", "Z">>
LowerCase == <<"a", "b", "c", "d", "e", "f", "g", "h", "i", "j", "k", "l", "m",
               "n", "o", "p", "q", "r", "s", "t", "u", "v", "w", "x", "y", "z">>
LowerOf == [ch \in {UpperCase[i] : i \in 1..26} |->
               LowerCase[CHOOSE i \in 1..26 : UpperCase[i] = ch]]

\* String.prototype.toLowerCase
toLowerCase(t) == [i \in 1..Len(t) |-> IF t[i] \in DOMAIN LowerOf THEN LowerOf[t[i]] ELSE t[i]]

\* kw occurs in t at position i (counted from 1)
OccursAt(t, kw, i) ==
    i + Len(kw) - 1 <= Len(t) /\ \A j \in 1..Len(kw) : t[i + j - 1] = kw[j]

\* String.prototype.includes
includes(t, kw) == \E i \in 1..(Len(t) - Len(kw) + 1) : OccursAt(t, kw, i)

(***************************************************************************)
(* AutonomousConfig values handed to start().  engagementThreshold and     *)
(* keywords act only through shouldEngageWithTweet.                        *)
(***************************************************************************)
Threshold == 5        \* engagementThreshold of a config that names none

Alpha == <<"a", "l", "p", "h", "a">>

\* The disabled config; also the config of a cycle that is not running
NoCfg == [ enabled |-> FALSE, maxRepliesPerHour |-> 0, autoReplyToMentions |-> FALSE,
           autoEngageWithTimeline |-> FALSE, engagementThreshold |-> Threshold,
           keywords |-> <<>> ]

Configs ==
    {NoCfg} \cup
    [ enabled                : {TRUE},
      maxRepliesPerHour      : 1..MaxK,
      autoReplyToMentions    : BOOLEAN,
      autoEngageWithTimeline : BOOLEAN,
      engagementThreshold    : {Threshold},
      keywords               : {<<Alpha>>} ]

(***************************************************************************)
(* Timeline items: public_metrics (present or not; a count that is missing *)
(* reads as 0 by "|| 0"), the text, and the context annotations as the     *)
(* names of their domain and entity (a missing name, or a missing          *)
(* context_annotations, matches nothing and is held as empty).             *)
(***************************************************************************)
Metrics(like_count, retweet_count) ==
    [ present |-> TRUE, like_count |-> like_count, retweet_count |-> retweet_count ]
NoMetrics == [ present |-> FALSE, like_count |-> 0, retweet_count |-> 0 ]

Annotation(domain, entity) == [ domain |-> domain, entity |-> entity ]

TimelineItem(public_metrics, text, context_annotations) ==
    [ public_metrics |-> public_metrics, text |-> text,
      context_annotations |-> context_annotations ]

AlphaNews == <<"A", "l", "p", "h", "a", " ", "n", "e", "w", "s">>
CryptoDomain == <<"C", "r", "y", "p", "t", "o">>

\* A popular item with a configured keyword in its text, and an item of the
\* crypto domain, with the keyword too, that nobody has liked much
Tweets ==
    { TimelineItem(Metrics(40, 10), AlphaNews, <<>>),
      TimelineItem(Metrics(1, 0), AlphaNews, <<Annotation(CryptoDomain, <<>>)>>) }

VARIABLES
    isRunning,     \* AutonomousService.isRunning
    intervalId,    \* AutonomousService.intervalId: id of the timer, NoTimer for null
    replyCount,    \* AutonomousService.replyCount
    activities,    \* AutonomousService.activities
    timers,        \* the setInterval timers armed by start() and not cleared
    cycles,        \* the executions of runAutonomousCycle, by id
    nextId,        \* id of the next cycle to begin
    lastOp,        \* the operation that took the last step
    lastResetTime, \* AutonomousService.lastResetTime (seconds since construction)
    handling       \* history: the handleMentions call of each cycle that is followed

engineVars == <<isRunning, intervalId, replyCount, activities, timers, cycles, nextId, lastOp,
                lastResetTime, handling>>

VARIABLES
    now,           \* the clock (Date.now()), in seconds since construction
    resetDue       \* when the hourly timer of the constructor fires next

clockVars == <<now, resetDue>>

VARIABLES
    readOut,       \* the last getRecentActivities / getStatus call and what it returned
    recorded       \* how many activity records have been recorded so far

bufferVars == <<readOut, recorded>>

VARIABLES
    genKeys,       \* AIService.huggingFaceApiKey / openRouterApiKey: configured or not
    genArgs,       \* the arguments of the generateTextContent call
    genPc,         \* where the call stands
    genTry,        \* which Hugging Face model is being called (1..3)
    genOut,        \* how the call settled, and with which text
    genCalls       \* the provider calls made and the text sources used, in order

genVars == <<genKeys, genArgs, genPc, genTry, genOut, genCalls>>

\* What no step of the engine changes, and what no step of a generation call changes
VARIABLES
    trendSources,  \* what the market source and the timeline source answer
    trendPc,       \* where the analyzeTrendingPosts call stands
    cryptoTrends,  \* analyzeTrendingPosts: the topics of getCryptoTrends
    twitterTrends, \* analyzeTrendingPosts: the topics of analyzeTwitterTrends
    trendingTopics \* analyzeTrendingPosts: the topics of combineTrends

trendVars == <<trendSources, trendPc, cryptoTrends, twitterTrends, trendingTopics>>

VARIABLES
    planNow,        \* getOptimalPostingTimes: now, in seconds of local time from
                    \* the midnight before
    planIdeas,      \* scheduleOptimalPosts: how many content ideas it is given
    planPc,         \* where the scheduleOptimalPosts call stands
    optimalTimes,   \* scheduleOptimalPosts: optimalTimes
    planIndex,      \* scheduleOptimalPosts: i
    scheduledCount, \* scheduleOptimalPosts: scheduledCount
    createdPosts,   \* the posts storage.createPost has created: the idea (its place
                    \* in contentIdeas) and scheduledFor
    markedUsed      \* the ideas storage.markContentIdeaAsUsed has marked

plannerVars == <<planNow, planIdeas, planPc, optimalTimes, planIndex, scheduledCount,
                 createdPosts, markedUsed>>

VARIABLES
    cache,          \* MemoryCache.cache: the item of each key, or none
    cacheNow,       \* Date.now(), in milliseconds since the cache was constructed
    sweepDue,       \* when the cleanup timer of the constructor fires next
    cacheOut,       \* the last call on the cache and what it returned
    unswept,        \* the Map as it would be, had cleanup never run
    lastSet         \* for each key, the set call that stored the entry it may hold

cacheVars == <<cache, cacheNow, sweepDue, cacheOut, unswept, lastSet>>

VARIABLES
    engageArgs,     \* the tweet and the config of a shouldEngageWithTweet call
    engageOut       \* whether the call has returned, and what

engageVars == <<engageArgs, engageOut>>

VARIABLES
    ideaTopics,     \* generateContentIdeas: trendingTopics
    ideaPc,         \* where the generateContentIdeas call stands
    ideaAt,         \* generateContentIdeas: the topic (its place) and i of the loops
    ideas,          \* generateContentIdeas: ideas
    saveCalls       \* how many storage.saveContentIdea calls the call has made

ideasVars == <<ideaTopics, ideaPc, ideaAt, ideas, saveCalls>>

VARIABLES
    useRedis,       \* CacheManager.useRedis
    isConnected,    \* RedisCache.isConnected
    redisPc,        \* where RedisCache.initRedis stands
    redisData,      \* what the Redis server holds for each key
    lastEvent,      \* history: the last event the Redis client emitted
    mgrOut          \* the last CacheManager call and what it returned

managerVars == <<useRedis, isConnected, redisPc, redisData, lastEvent, mgrOut>>

VARIABLES
    cachedCalls,    \* the CacheManager.cached calls, by id
    promised        \* history: for each key, the result of the cached call that
                    \* filled it, and until when

cachedVars == <<cachedCalls, promised>>

\* The state of the services beside the engine
servicesVars == <<genVars, trendVars, plannerVars, cacheVars, engageVars, ideasVars,
                  managerVars, cachedVars>>

outsideEngine == <<clockVars, bufferVars, servicesVars>>
outsideGen == <<engineVars, clockVars, bufferVars, trendVars, plannerVars, cacheVars, engageVars,
                ideasVars, managerVars, cachedVars>>
outsideTrends == <<engineVars, clockVars, bufferVars, genVars, plannerVars, cacheVars, engageVars,
                   ideasVars, managerVars, cachedVars>>
outsidePlanner == <<engineVars, clockVars, bufferVars, genVars, trendVars, cacheVars, engageVars,
                    ideasVars, managerVars, cachedVars>>
outsideCache == <<engineVars, clockVars, bufferVars, genVars, trendVars, plannerVars,
                  engageVars, ideasVars, managerVars, cachedVars>>
outsideEngage == <<engineVars, clockVars, bufferVars, genVars, trendVars, plannerVars,
                   cacheVars, ideasVars, managerVars, cachedVars>>
outsideIdeas == <<engineVars, clockVars, bufferVars, genVars, trendVars, plannerVars,
                  cacheVars, engageVars, managerVars, cachedVars>>
outsideBatch == <<engineVars, clockVars, bufferVars, genVars, trendVars, cacheVars, engageVars,
                  managerVars, cachedVars>>
outsideManager == <<engineVars, clockVars, bufferVars, genVars, trendVars, plannerVars,
                    engageVars, ideasVars, cachedVars>>
outsideCached == <<engineVars, clockVars, bufferVars, genVars, trendVars, plannerVars,
                   engageVars, ideasVars, managerVars>>

vars == <<isRunning, intervalId, replyCount, activities, timers, cycles, nextId, lastOp,
          lastResetTime, handling, now, resetDue, readOut, recorded,
          genKeys, genArgs, genPc, genTry, genOut, genCalls,
          trendSources, trendPc, cryptoTrends, twitterTrends, trendingTopics,
          planNow, planIdeas, planPc, optimalTimes, planIndex, scheduledCount,
          createdPosts, markedUsed,
          cache, cacheNow, sweepDue, cacheOut, unswept, lastSet,
          engageArgs, engageOut,
          ideaTopics, ideaPc, ideaAt, ideas, saveCalls,
          useRedis, isConnected, redisPc, redisData, lastEvent, mgrOut,
          cachedCalls, promised>>

CycleIds == 1..MaxCycles

\* No read has been made
NoRead == [ call |-> "none", limit |-> 0, result |-> <<>> ]

\* A cycle that has not begun
NoCycle == [ pc |-> "none", origin |-> "none", timer |-> NoTimer, cfg |-> NoCfg,
             todo |-> <<>>, n |-> 0, outcome |-> "none" ]

\* A cycle whose promise has settled: outcome is "returned", "skipped" (no
\* credentials), "failed" (caught by the cycle) or "threw" (rejected)
Finished(cyc, how) ==
    [ pc |-> "done", origin |-> cyc.origin, timer |-> cyc.timer, cfg |-> NoCfg,
      todo |-> <<>>, n |-> 0, outcome |-> how ]

InFlight(c) == cycles[c].pc \notin {"none", "done"}

Op(name, c, ev) == [ op |-> name, c |-> c, ev |-> ev ]

(***************************************************************************)
(* addActivity: push, then keep the last 100.                              *)
(***************************************************************************)
Activity(type, success, content) ==
    [ type |-> type, success |-> success, content |-> content ]

addActivity(acts, a) ==
    LET pushed == Append(acts, a)
    IN  IF Len(pushed) > ActivityCap
        THEN SubSeq(pushed, Len(pushed) - ActivityCap + 1, Len(pushed))
        ELSE pushed

(***************************************************************************)
(* shouldEngageWithTweet                                                   *)
(***************************************************************************)
CryptoWord == <<"c", "r", "y", "p", "t", "o">>
Finance == <<"f", "i", "n", "a", "n", "c", "e">>
Bitcoin == <<"b", "i", "t", "c", "o", "i", "n">>
Ethereum == <<"e", "t", "h", "e", "r", "e", "u", "m">>

\* lines 339-342
hasRelevantKeywords(tweet, config) ==
    LET tweetText == toLowerCase(tweet.text)
    IN  \E k \in 1..Len(config.keywords) :
            includes(tweetText, toLowerCase(config.keywords[k]))

\* lines 345-350
hasCryptoContext(tweet) ==
    \E a \in 1..Len(tweet.context_annotations) :
        LET annotation == tweet.context_annotations[a]
        IN  \/ includes(toLowerCase(annotation.domain), CryptoWord)
            \/ includes(toLowerCase(annotation.domain), Finance)
            \/ includes(toLowerCase(annotation.entity), Bitcoin)
            \/ includes(toLowerCase(annotation.entity), Ethereum)

\* Mutant of shouldEngageWithTweet: both signals are required
shouldEngageWithTweetBothSignals(tweet, config) ==
    LET metrics == tweet.public_metrics
    IN  IF metrics.present
           /\ metrics.like_count + metrics.retweet_count < config.engagementThreshold
        THEN FALSE
        ELSE hasRelevantKeywords(tweet, config) /\ hasCryptoContext(tweet)

shouldEngageWithTweet(tweet, config) ==
    LET metrics == tweet.public_metrics
    IN  IF metrics.present
           /\ metrics.like_count + metrics.retweet_count < config.engagementThreshold
        THEN FALSE
        ELSE hasRelevantKeywords(tweet, config) \/ hasCryptoContext(tweet)

(***************************************************************************)
(* The synchronous stretches of a cycle.  Each operator takes the cycle    *)
(* record with the shared fields it may change (rc = replyCount, acts =    *)
(* activities) and runs the code up to the next await or to the end of     *)
(* runAutonomousCycle; "coin" is the outcome of Math.random() < 0.3.       *)
(***************************************************************************)
St(cyc, rc, acts) == [ cyc |-> cyc, rc |-> rc, acts |-> acts ]

\* Mutant of ProactiveStep: no proactive post once the reply budget is spent
ProactiveStepWithinBudget(cyc, rc, acts, coin) ==
    IF coin /\ rc < cyc.cfg.maxRepliesPerHour
    THEN St([cyc EXCEPT !.pc = "aGen", !.todo = <<>>, !.n = 0], rc, acts)
    ELSE St(Finished(cyc, "returned"), rc, acts)

\* runAutonomousCycle, lines 115-118 and the normal end of the try block
ProactiveStep(cyc, rc, acts, coin) ==
    IF coin
    THEN St([cyc EXCEPT !.pc = "aGen", !.todo = <<>>, !.n = 0], rc, acts)
    ELSE St(Finished(cyc, "returned"), rc, acts)

\* handleTimelineEngagement, the for loop from its head (lines 212-260)
RECURSIVE TimelineLoop(_, _, _, _)
TimelineLoop(cyc, rc, acts, coin) ==
    IF cyc.todo = <<>>
    THEN ProactiveStep(cyc, rc,
                       addActivity(acts, Activity("timeline_read", TRUE, cyc.n)), coin)
    ELSE IF shouldEngageWithTweet(Head(cyc.todo), cyc.cfg)
            /\ rc < cyc.cfg.maxRepliesPerHour
         THEN St([cyc EXCEPT !.pc = "tGen"], rc, acts)
         ELSE TimelineLoop([cyc EXCEPT !.todo = Tail(cyc.todo)], rc, acts, coin)

\* runAutonomousCycle, lines 110-113
TimelineStep(cyc, rc, acts, coin) ==
    IF cyc.cfg.autoEngageWithTimeline
    THEN St([cyc EXCEPT !.pc = "getTimeline", !.todo = <<>>], rc, acts)
    ELSE ProactiveStep(cyc, rc, acts, coin)

\* Mutant of MentionLoop: the budget check of lines 149-152 is missing
MentionLoopIgnoresBudget(cyc, rc, acts, coin) ==
    IF cyc.todo = <<>>
    THEN TimelineStep(cyc, rc, acts, coin)
    ELSE St([cyc EXCEPT !.pc = "mGen"], rc, acts)

\* handleMentions, the for loop from its head (lines 148-196)
MentionLoop(cyc, rc, acts, coin) ==
    IF cyc.todo = <<>> \/ rc >= cyc.cfg.maxRepliesPerHour
    THEN TimelineStep(cyc, rc, acts, coin)
    ELSE St([cyc EXCEPT !.pc = "mGen"], rc, acts)

\* runAutonomousCycle, lines 105-108, and handleMentions up to getMentions
MentionStep(cyc, rc, acts, coin) ==
    IF cyc.cfg.autoReplyToMentions
    THEN IF rc >= cyc.cfg.maxRepliesPerHour
         THEN TimelineStep(cyc, rc, acts, coin)
         ELSE St([cyc EXCEPT !.pc = "getMentions"], rc, acts)
    ELSE TimelineStep(cyc, rc, acts, coin)

\* Mutant of CycleCatch: the catch block rethrows after recording the failure
CycleCatchRethrows(cyc, rc, acts) ==
    St(Finished(cyc, "threw"), rc,
       addActivity(acts, Activity("auto_post", FALSE, "Autonomous cycle failed")))

\* runAutonomousCycle, the catch block (lines 120-130)
CycleCatch(cyc, rc, acts) ==
    St(Finished(cyc, "failed"), rc,
       addActivity(acts, Activity("auto_post", FALSE, "Autonomous cycle failed")))

\* Mutant of AfterGetUser: without the check of line 100 a missing user makes
\* line 107 throw, which the catch block records
AfterGetUserNoCredentialCheck(cyc, rc, acts, user, coin) ==
    CASE user \in {"throw", "absent"} -> CycleCatch(cyc, rc, acts)
      [] OTHER                        -> MentionStep(cyc, rc, acts, coin)

\* runAutonomousCycle after storage.getUser settles (lines 99-103);
\* user is "ok", "absent" (no user or a missing token) or "throw"
AfterGetUser(cyc, rc, acts, user, coin) ==
    CASE user = "throw"  -> CycleCatch(cyc, rc, acts)
      [] user = "absent" -> St(Finished(cyc, "skipped"), rc, acts)
      [] OTHER           -> MentionStep(cyc, rc, acts, coin)

(***************************************************************************)
(* start(), lines 61-68: what runs when the awaited first cycle settles.   *)
(* The timer is armed whatever isRunning has become meanwhile; a rejected  *)
(* cycle would reject start() before the timer is set.                     *)
(***************************************************************************)
\* Mutant of ArmsTimer: the timer is set without awaiting the first cycle
ArmsTimerBeforeCycleEnds(cyc) == cyc.origin = "start" /\ cyc.outcome # "threw"

ArmsTimer(cyc) == cyc.pc = "done" /\ cyc.origin = "start" /\ cyc.outcome # "threw"

\* The awaits of handleMentions (lines 145, 155, 163 and 183)
MentionPcs == {"getMentions", "mGen", "mReply", "mSleep"}

\* No handleMentions call has been made
NoCall == [ called |-> FALSE, active |-> FALSE, budget |-> 0, entry |-> 0, posted |-> 0,
            reset |-> FALSE ]

\* What a step of a cycle adds to the history of its handleMentions call: the
\* call is made at line 107 with the replyCount of that moment, and each
\* reply it posts (line 163 resolved) is counted
Followed(h, old, new, ev, rc) ==
    IF old.pc = "getUser" /\ ev = "ok" /\ old.cfg.autoReplyToMentions
    THEN [ called |-> TRUE, active |-> new.pc \in MentionPcs,
           budget |-> old.cfg.maxRepliesPerHour, entry |-> rc, posted |-> 0,
           reset |-> FALSE ]
    ELSE IF old.pc \in MentionPcs
         THEN [h EXCEPT !.active = new.pc \in MentionPcs,
                        !.posted = @ + (IF ev = "replied" THEN 1 ELSE 0)]
         ELSE h

\* The hourly callback fired while the call was in progress
ResetSeen(h) == IF h.active THEN [h EXCEPT !.reset = TRUE] ELSE h

\* Installs the result of a step of cycle c
Resume(c, st, ev) ==
    /\ cycles' = [cycles EXCEPT ![c] = st.cyc]
    /\ replyCount' = st.rc
    /\ activities' = st.acts
    /\ IF ArmsTimer(st.cyc)
       THEN /\ intervalId' = c
            /\ timers' = timers \cup {[id |-> c, cfg |-> cycles[c].cfg]}
       ELSE UNCHANGED <<intervalId, timers>>
    /\ lastOp' = Op("cycle", c, ev)
    /\ handling' = [t \in DOMAIN handling |->
                       IF t = c THEN Followed(handling[t], cycles[c], st.cyc, ev, replyCount)
                                ELSE handling[t]]
    /\ UNCHANGED <<isRunning, nextId>>
    /\ UNCHANGED <<lastResetTime, outsideEngine>>

\* The first synchronous stretch of runAutonomousCycle (up to storage.getUser)
BeginCycle(origin, timer, config) ==
    [ pc |-> "getUser", origin |-> origin, timer |-> timer, cfg |-> config,
      todo |-> <<>>, n |-> 0, outcome |-> "none" ]

(***************************************************************************)
(* start(userId, config), lines 44-59                                      *)
(***************************************************************************)
\* Mutant of StartIsNoop: the isRunning check of line 45 is missing
StartIsNoopIgnoresRunning(config) == ~config.enabled

StartIsNoop(config) == isRunning \/ ~config.enabled

StartArg(config) == IF config.enabled THEN "enabled" ELSE "disabled"

Start(config) ==
    /\ UNCHANGED <<lastResetTime, handling, outsideEngine>>
    /\ IF StartIsNoop(config)
       THEN /\ lastOp' = Op("start", 0, StartArg(config))
            /\ UNCHANGED <<isRunning, intervalId, replyCount, activities, timers, cycles,
                           nextId>>
       ELSE /\ nextId <= MaxCycles
            /\ isRunning' = TRUE
            /\ cycles' = [cycles EXCEPT ![nextId] = BeginCycle("start", NoTimer, config)]
            /\ nextId' = nextId + 1
            /\ lastOp' = Op("start", nextId, StartArg(config))
            /\ UNCHANGED <<intervalId, replyCount, activities, timers>>

(***************************************************************************)
(* stop(), lines 72-84                                                     *)
(***************************************************************************)
Stop ==
    /\ IF ~isRunning
       THEN UNCHANGED <<isRunning, intervalId, timers>>
       ELSE /\ isRunning' = FALSE
            /\ IF intervalId # NoTimer
               THEN /\ timers' = {t \in timers : t.id # intervalId}
                    /\ intervalId' = NoTimer
               ELSE UNCHANGED <<intervalId, timers>>
    /\ lastOp' = Op("stop", 0, "stop")
    /\ UNCHANGED <<replyCount, activities, cycles, nextId>>
    /\ UNCHANGED <<lastResetTime, handling, outsideEngine>>

(***************************************************************************)
(* The callback of the recurring timer (lines 62-68) fires.                *)
(***************************************************************************)
Tick(t) ==
    /\ t \in timers
    /\ nextId <= MaxCycles
    /\ cycles' = [cycles EXCEPT ![nextId] = BeginCycle("tick", t.id, t.cfg)]
    /\ nextId' = nextId + 1
    /\ lastOp' = Op("tick", nextId, "tick")
    /\ UNCHANGED <<isRunning, intervalId, replyCount, activities, timers>>
    /\ UNCHANGED <<lastResetTime, handling, outsideEngine>>

(***************************************************************************)
(* The hourly callback armed by the constructor (lines 36-40) fires.       *)
(***************************************************************************)
\* Mutant of ResetCallback: the callback zeroes the counter only
ResetCallbackKeepsWindowStart ==
    /\ replyCount' = 0
    /\ lastOp' = Op("reset", 0, "reset")
    /\ handling' = [t \in DOMAIN handling |-> ResetSeen(handling[t])]
    /\ UNCHANGED <<isRunning, intervalId, activities, timers, cycles, nextId, lastResetTime,
                   handling>>
    /\ UNCHANGED <<bufferVars, servicesVars>>

ResetCallback ==
    /\ replyCount' = 0
    /\ lastResetTime' = now
    /\ lastOp' = Op("reset", 0, "reset")
    /\ handling' = [t \in DOMAIN handling |-> ResetSeen(handling[t])]
    /\ UNCHANGED <<isRunning, intervalId, activities, timers, cycles, nextId>>
    /\ UNCHANGED <<bufferVars, servicesVars>>

\* The callback fires at a moment the clock of this specification does not follow
HourlyReset == ResetCallback /\ UNCHANGED clockVars

(***************************************************************************)
(* The awaits of a cycle settle.                                           *)
(***************************************************************************)
\* storage.getUser (line 99)
GetUserSettles(c) ==
    /\ cycles[c].pc = "getUser"
    /\ \E user \in {"ok", "absent", "throw"}, coin \in BOOLEAN :
         Resume(c, AfterGetUser(cycles[c], replyCount, activities, user, coin),
                user)

\* twitterService.getMentions (line 145); a rejection is caught at line 197.
\* A mention is named by a number, the same number in every call that
\* returns it.
GetMentionsReturns(c, most) ==
    /\ cycles[c].pc = "getMentions"
    /\ \E coin \in BOOLEAN :
         \/ \E len \in 0..most :
              Resume(c, MentionLoop([cycles[c] EXCEPT !.todo = [i \in 1..len |-> i]],
                                    replyCount, activities, coin), "mentions")
         \/ Resume(c, TimelineStep(cycles[c], replyCount, activities, coin), "mentionsFailed")

GetMentionsSettles(c) == GetMentionsReturns(c, MaxMentions)

\* aiService.generateTextContent (line 155)
MentionGenSettles(c) ==
    /\ cycles[c].pc = "mGen"
    /\ Resume(c, St([cycles[c] EXCEPT !.pc = "mReply"], replyCount, activities), "generated")

\* twitterService.replyToTweet (line 163), then lines 170-183 or the catch at 185
MentionReplySettles(c) ==
    /\ cycles[c].pc = "mReply"
    /\ \/ Resume(c, St([cycles[c] EXCEPT !.pc = "mSleep"], replyCount + 1,
                       addActivity(activities,
                                   Activity("mention_reply", TRUE, Head(cycles[c].todo)))),
                 "replied")
       \/ \E coin \in BOOLEAN :
            Resume(c, MentionLoop([cycles[c] EXCEPT !.todo = Tail(cycles[c].todo)],
                                  replyCount,
                                  addActivity(activities,
                                              Activity("mention_reply", FALSE,
                                                       Head(cycles[c].todo))),
                                  coin), "replyFailed")

\* sleep(2000) (line 183)
MentionSleepSettles(c) ==
    /\ cycles[c].pc = "mSleep"
    /\ \E coin \in BOOLEAN :
         Resume(c, MentionLoop([cycles[c] EXCEPT !.todo = Tail(cycles[c].todo)],
                               replyCount, activities, coin), "slept")

\* twitterService.getHomeTimeline (line 209); a rejection is caught at line 262
GetTimelineReturns(c, most) ==
    /\ cycles[c].pc = "getTimeline"
    /\ \E coin \in BOOLEAN :
         \/ \E len \in 0..most : \E tl \in [1..len -> Tweets] :
              Resume(c, TimelineLoop([cycles[c] EXCEPT !.todo = tl, !.n = len],
                                     replyCount, activities, coin), "timeline")
         \/ Resume(c, ProactiveStep(cycles[c], replyCount, activities, coin),
                   "timelineFailed")

GetTimelineSettles(c) == GetTimelineReturns(c, MaxTimeline)

\* aiService.generateTextContent (line 219)
TimelineGenSettles(c) ==
    /\ cycles[c].pc = "tGen"
    /\ Resume(c, St([cycles[c] EXCEPT !.pc = "tReply"], replyCount, activities), "generated")

\* twitterService.replyToTweet (line 227), then lines 234-247 or the catch at 249
TimelineReplySettles(c) ==
    /\ cycles[c].pc = "tReply"
    /\ \/ Resume(c, St([cycles[c] EXCEPT !.pc = "tSleep"], replyCount + 1,
                       addActivity(activities, Activity("engagement", TRUE, "reply"))),
                 "replied")
       \/ \E coin \in BOOLEAN :
            Resume(c, TimelineLoop([cycles[c] EXCEPT !.todo = Tail(cycles[c].todo)],
                                   replyCount, activities, coin), "replyFailed")

\* sleep(3000) (line 247)
TimelineSleepSettles(c) ==
    /\ cycles[c].pc = "tSleep"
    /\ \E coin \in BOOLEAN :
         Resume(c, TimelineLoop([cycles[c] EXCEPT !.todo = Tail(cycles[c].todo)],
                                replyCount, activities, coin), "slept")

\* generateAutonomousContent, the catch block (lines 314-324)
ProactiveCatch(cyc, rc, acts) ==
    St(Finished(cyc, "returned"), rc,
       addActivity(acts, Activity("auto_post", FALSE,
                                  "Failed to generate autonomous content")))

\* aiService.generateTextContent (line 285)
ProactiveGenSettles(c) ==
    /\ cycles[c].pc = "aGen"
    /\ Resume(c, St([cycles[c] EXCEPT !.pc = "aPost"], replyCount, activities), "generated")

\* twitterService.postTweet (line 293)
ProactivePostSettles(c) ==
    /\ cycles[c].pc = "aPost"
    /\ \/ Resume(c, St([cycles[c] EXCEPT !.pc = "aSave"], replyCount, activities), "posted")
       \/ Resume(c, ProactiveCatch(cycles[c], replyCount, activities), "postFailed")

\* storage.createPost (line 296), then lines 304-312
ProactiveSaveSettles(c) ==
    /\ cycles[c].pc = "aSave"
    /\ \/ Resume(c, St(Finished(cycles[c], "returned"), replyCount,
                       addActivity(activities, Activity("auto_post", TRUE, "Posted"))),
                 "saved")
       \/ Resume(c, ProactiveCatch(cycles[c], replyCount, activities), "saveFailed")

CycleStep(c) ==
    \/ GetUserSettles(c)
    \/ GetMentionsSettles(c)
    \/ MentionGenSettles(c)
    \/ MentionReplySettles(c)
    \/ MentionSleepSettles(c)
    \/ GetTimelineSettles(c)
    \/ TimelineGenSettles(c)
    \/ TimelineReplySettles(c)
    \/ TimelineSleepSettles(c)
    \/ ProactiveGenSettles(c)
    \/ ProactivePostSettles(c)
    \/ ProactiveSaveSettles(c)

InitEngine ==
    /\ isRunning = FALSE
    /\ intervalId = NoTimer
    /\ replyCount = 0
    /\ activities = <<>>
    /\ timers = {}
    /\ cycles = [c \in CycleIds |-> NoCycle]
    /\ nextId = 1
    /\ lastOp = Op("init", 0, "init")
    /\ lastResetTime = 0
    /\ now = 0
    /\ resetDue = Hour
    /\ readOut = NoRead
    /\ recorded = 0

\* No handleMentions call is followed
InitHandlingIdle == handling = [t \in {} |-> NoCall]

\* No generateTextContent call is being followed
InitGenIdle ==
    /\ genKeys = [hf |-> FALSE, or |-> FALSE]
    /\ genArgs = [topic |-> <<>>, contentType |-> "tweet", maxLength |-> 0]
    /\ genPc = "idle"
    /\ genTry = 0
    /\ genOut = [kind |-> "none", text |-> <<>>]
    /\ genCalls = <<>>

\* No analyzeTrendingPosts call is being followed
InitTrendsIdle ==
    /\ trendSources = [market |-> "none", timeline |-> "none"]
    /\ trendPc = "idle"
    /\ cryptoTrends = <<>>
    /\ twitterTrends = <<>>
    /\ trendingTopics = <<>>

\* No scheduleOptimalPosts call is being followed
InitPlannerIdle ==
    /\ planNow = 0
    /\ planIdeas = 0
    /\ planPc = "idle"
    /\ optimalTimes = <<>>
    /\ planIndex = 0
    /\ scheduledCount = 0
    /\ createdPosts = <<>>
    /\ markedUsed = {}

SweepPeriod == 300000    \* 5 * 60 * 1000 ms between two cleanups

CacheKeys == {"a", "b"}
CacheValues == {"v1", "v2"}

\* No entry, and no set call
NoItem == [ present |-> FALSE, value |-> "null", expiry |-> 0 ]
NoSet == [ present |-> FALSE, value |-> "null", at |-> 0, ttlSeconds |-> 0 ]

\* The call has not returned
NotDecided == [ returned |-> FALSE, result |-> FALSE ]

\* No shouldEngageWithTweet call is being followed
InitEngageIdle ==
    /\ engageArgs = [tweet |-> TimelineItem(NoMetrics, <<>>, <<>>), config |-> NoCfg]
    /\ engageOut = NotDecided

\* The cache as constructed
InitCache ==
    /\ cache = [k \in CacheKeys |-> NoItem]
    /\ cacheNow = 0
    /\ sweepDue = SweepPeriod
    /\ cacheOut = [ op |-> "none", key |-> "none", result |-> "null", unswept |-> "null" ]
    /\ unswept = [k \in CacheKeys |-> NoItem]
    /\ lastSet = [k \in CacheKeys |-> NoSet]

\* No generateContentIdeas call is being followed
InitIdeasIdle ==
    /\ ideaTopics = <<>>
    /\ ideaPc = "idle"
    /\ ideaAt = [topic |-> 0, i |-> 0]
    /\ ideas = <<>>
    /\ saveCalls = 0

\* No event of the Redis client, and no CacheManager call
NoEvent == "none"
NoMgrCall == [ op |-> "none", key |-> "none", result |-> "null" ]

\* The memory backend is selected and the Redis cache is left aside
InitManagerIdle ==
    /\ useRedis = FALSE
    /\ isConnected = FALSE
    /\ redisPc = "idle"
    /\ redisData = [k \in CacheKeys |-> NoItem]
    /\ lastEvent = NoEvent
    /\ mgrOut = NoMgrCall

\* No cached call is being followed
InitCachedIdle ==
    /\ cachedCalls = <<>>
    /\ promised = [k \in CacheKeys |-> {}]

InitLateIdle == InitIdeasIdle /\ InitManagerIdle /\ InitCachedIdle

InitServicesIdle ==
    InitGenIdle /\ InitTrendsIdle /\ InitPlannerIdle /\ InitCache /\ InitEngageIdle
       /\ InitLateIdle

Init == InitEngine /\ InitHandlingIdle /\ InitServicesIdle

Next ==
    \/ \E config \in Configs : Start(config)
    \/ Stop
    \/ \E t \in timers : Tick(t)
    \/ HourlyReset
    \/ \E c \in CycleIds : CycleStep(c)

Spec == Init /\ [][Next]_vars

(***************************************************************************)
(*                        The engine with its clock                        *)
(*                                                                         *)
(* SpecTimed follows the clock: the hourly timer armed by the constructor  *)
(* fires when it is due, every Hour from construction.                     *)
(***************************************************************************)
\* The disabled config, one that replies to mentions only and one that
\* engages with the timeline only
TimedConfigs ==
    { NoCfg,
      [ enabled |-> TRUE, maxRepliesPerHour |-> MaxK, autoReplyToMentions |-> TRUE,
        autoEngageWithTimeline |-> FALSE, engagementThreshold |-> Threshold,
        keywords |-> <<Alpha>> ],
      [ enabled |-> TRUE, maxRepliesPerHour |-> MaxK, autoReplyToMentions |-> FALSE,
        autoEngageWithTimeline |-> TRUE, engagementThreshold |-> Threshold,
        keywords |-> <<Alpha>> ] }

\* The hourly timer fires when it is due and is due again an Hour later
TimedHourlyReset ==
    /\ now = resetDue
    /\ ResetCallback
    /\ resetDue' = resetDue + Hour
    /\ now' = now

\* Time passes, but not past the moment the hourly timer is due
Advance ==
    /\ now < resetDue
    /\ now < MaxHours * Hour
    /\ now' = Min2(now + ClockStep, resetDue)
    /\ lastOp' = Op("clock", 0, "clock")
    /\ UNCHANGED <<isRunning, intervalId, replyCount, activities, timers, cycles, nextId,
                   lastResetTime, handling, resetDue>>
    /\ UNCHANGED <<bufferVars, servicesVars>>

NextTimed ==
    \/ \E config \in TimedConfigs : Start(config)
    \/ Stop
    \/ \E t \in timers : Tick(t)
    \/ TimedHourlyReset
    \/ Advance
    \/ \E c \in CycleIds : CycleStep(c)

SpecTimed == Init /\ [][NextTimed]_vars

(***************************************************************************)
(* Claims about the hourly reset.                                          *)
(***************************************************************************)
\* C11: the budget window is reset by the hourly timer of the constructor
\* only.  The timer is due every Hour counted from construction and is never
\* overdue, whether the engine is running or stopped; a firing sets
\* replyCount to 0 and lastResetTime to the time of the firing; and no other
\* step (start, stop, a tick, a step of a cycle, the passing of time) lowers
\* replyCount, changes lastResetTime or moves the timer.
C11_HourlyResetOnly ==
    /\ [](/\ lastResetTime % Hour = 0
          /\ resetDue = lastResetTime + Hour
          /\ now <= resetDue)
    /\ [][ /\ lastOp'.op = "reset"
               => /\ now = resetDue
                  /\ replyCount' = 0
                  /\ lastResetTime' = now
                  /\ resetDue' = resetDue + Hour
           /\ lastOp'.op # "reset"
               => /\ replyCount' >= replyCount
                  /\ lastResetTime' = lastResetTime
                  /\ resetDue' = resetDue ]_vars

\* C11 witness: the timer has fired for the second time, two hours after
\* construction, on a stopped engine that had replied to a mention
C11_Witness ==
    /\ lastOp.op = "reset" /\ lastResetTime = 2 * Hour /\ replyCount = 0
    /\ ~isRunning /\ intervalId = NoTimer
    /\ \E i \in 1..Len(activities) :
           activities[i].type = "mention_reply" /\ activities[i].success

(***************************************************************************)
(*                  The activity buffer and its readers                    *)
(*                                                                         *)
(* SpecBuffer follows this.activities alone: the records cycles add to it  *)
(* (by addActivity, each stamped with the time of its recording) and the   *)
(* getRecentActivities / getStatus calls that read it.  A record is its    *)
(* id, here the number of the addActivity call that made it, and its       *)
(* timestamp, in seconds.                                                  *)
(***************************************************************************)
\* Array.prototype.sort((a, b) => b.timestamp - a.timestamp): newest first,
\* records of equal time keeping their order (the sort is stable).  The place
\* of a record in the result is one more than the number of records that go
\* before it: the newer ones, and those as old that stood before it.
sortNewestFirst(acts) ==
    LET n == Len(acts)
        before(i) == {j \in 1..n : \/ acts[j].timestamp > acts[i].timestamp
                                   \/ /\ acts[j].timestamp = acts[i].timestamp
                                      /\ j < i}
        place == SubSeq([i \in 1..n |-> 1 + Cardinality(before(i))], 1, n)
    IN  SubSeq([p \in 1..n |-> acts[CHOOSE i \in 1..n : place[i] = p]], 1, n)


\* Array.prototype.slice(0, end): a negative end counts from the end
sliceTo(t, end) ==
    SubSeq(t, 1, IF end < 0 THEN Max2(Len(t) + end, 0) ELSE Min2(end, Len(t)))

\* getRecentActivities(limit): sort() sorts this.activities itself, in place,
\* and returns it; slice copies the first records of it
getRecentActivities(acts, limit) ==
    LET sorted == sortNewestFirst(acts)
    IN  [ stored |-> sorted, result |-> sliceTo(sorted, limit) ]

StatusLimit == 5      \* getStatus returns getRecentActivities(5)

\* The limits getRecentActivities is called with: the route passes
\* parseInt(req.query.limit) || 20
ReadLimits == {1, 20}

GetRecentActivities(limit) ==
    /\ LET read == getRecentActivities(activities, limit)
       IN  /\ activities' = read.stored
           /\ readOut' = [ call |-> "getRecentActivities", limit |-> limit,
                           result |-> read.result ]
    /\ lastOp' = Op("getRecentActivities", 0, "read")
    /\ UNCHANGED <<isRunning, intervalId, replyCount, timers, cycles, nextId, lastResetTime,
                   handling>>
    /\ UNCHANGED <<clockVars, recorded, servicesVars>>

\* getStatus; of the object it returns the model keeps recentActivities
GetStatus ==
    /\ LET read == getRecentActivities(activities, StatusLimit)
       IN  /\ activities' = read.stored
           /\ readOut' = [ call |-> "getStatus", limit |-> StatusLimit,
                           result |-> read.result ]
    /\ lastOp' = Op("getStatus", 0, "read")
    /\ UNCHANGED <<isRunning, intervalId, replyCount, timers, cycles, nextId, lastResetTime,
                   handling>>
    /\ UNCHANGED <<clockVars, recorded, servicesVars>>

\* The buffer after n records made one second apart, and never read
Filled(n) == [i \in 1..n |-> [id |-> i, timestamp |-> i]]

Prefill == ActivityCap - 1

\* A cycle records an activity (any of the addActivity calls of the handlers)
RecordActivity ==
    /\ \/ recorded < MaxAppends
       \/ recorded >= Prefill /\ recorded < Prefill + MaxAppends
    /\ recorded' = recorded + 1
    /\ activities' = addActivity(activities, [id |-> recorded + 1, timestamp |-> now])
    /\ lastOp' = Op("addActivity", recorded + 1, "record")
    /\ UNCHANGED <<isRunning, intervalId, replyCount, timers, cycles, nextId, lastResetTime,
                   handling>>
    /\ UNCHANGED <<clockVars, readOut, servicesVars>>

\* A second passes
Second ==
    /\ now <= recorded
    /\ now' = now + 1
    /\ lastOp' = Op("clock", 0, "clock")
    /\ UNCHANGED <<isRunning, intervalId, replyCount, activities, timers, cycles, nextId,
                   lastResetTime, handling, resetDue>>
    /\ UNCHANGED <<bufferVars, servicesVars>>

\* The engine some time after construction: n records made, then stopped
InitBuffer ==
    /\ \E n \in {0, Prefill} :
          /\ activities = Filled(n)
          /\ recorded = n
          /\ now = n
    /\ isRunning = FALSE
    /\ intervalId = NoTimer
    /\ replyCount = 0
    /\ timers = {}
    /\ cycles = [c \in CycleIds |-> NoCycle]
    /\ nextId = 1
    /\ lastOp = Op("init", 0, "init")
    /\ lastResetTime = 0
    /\ resetDue = Hour
    /\ readOut = NoRead
    /\ InitHandlingIdle
    /\ InitServicesIdle

NextBuffer ==
    \/ RecordActivity
    \/ Second
    \/ \E limit \in ReadLimits : GetRecentActivities(limit)
    \/ GetStatus

SpecBuffer == InitBuffer /\ [][NextBuffer]_vars

(***************************************************************************)
(* Claims about the activity buffer.                                       *)
(***************************************************************************)
\* C14 (as claimed): the buffer never holds more than 100 records, and what
\* it holds is always the most recently recorded ones: a record pushed onto a
\* full buffer evicts the earliest recorded one, whatever reads came between.
C14_OldestEvictedFirst ==
    /\ Len(activities) <= ActivityCap
    /\ {activities[i].id : i \in 1..Len(activities)}
          = (Max2(recorded - ActivityCap, 0) + 1)..recorded

\* C15 (as claimed): getRecentActivities(limit) and getStatus() leave the
\* stored activity sequence (contents and order), replyCount, isRunning and
\* the timer unchanged, and return at most limit (5 for getStatus) records,
\* newest first.
C15_ReadsChangeNothing ==
    [][ lastOp'.op \in {"getRecentActivities", "getStatus"}
           => /\ activities' = activities
              /\ UNCHANGED <<replyCount, isRunning, intervalId, timers, lastResetTime>>
              /\ Len(readOut'.result) <= readOut'.limit
              /\ \A i \in 1..(Len(readOut'.result) - 1) :
                    readOut'.result[i].timestamp >= readOut'.result[i + 1].timestamp
      ]_vars

(***************************************************************************)
(*                     The generation fallback chain                       *)
(*                                                                         *)
(* A text is the sequence of its UTF-16 code units, so that Len is the     *)
(* .length the code compares and cuts by.                                  *)
(***************************************************************************)
AbsoluteMaxLength == 280     \* ABSOLUTE_MAX_LENGTH, generateWithHuggingFace

Whitespace == {" "}
Quotes == {"\"", "'"}
Ellipsis == <<".", ".", ".">>

\* String.prototype.substring(from, to): both ends clamped to 0..length and
\* swapped when from > to (positions count from 0)
substring(t, from, to) ==
    LET a == Max2(0, Min2(from, Len(t)))
        b == Max2(0, Min2(to, Len(t)))
    IN  SubSeq(t, Min2(a, b) + 1, Max2(a, b))

\* String.prototype.lastIndexOf(ch, from): the last position <= from (counted
\* from 0, a negative from counting as 0) that holds ch, or -1
lastIndexOf(t, ch, from) ==
    LET top == Min2(Max2(from, 0), Len(t) - 1)
    IN  IF \E i \in 0..top : t[i + 1] = ch
        THEN CHOOSE i \in 0..top : t[i + 1] = ch /\ \A j \in (i + 1)..top : t[j + 1] # ch
        ELSE -1

\* String.prototype.trim
trim(t) ==
    IF \A i \in 1..Len(t) : t[i] \in Whitespace
    THEN <<>>
    ELSE LET first == CHOOSE i \in 1..Len(t) :
                         t[i] \notin Whitespace /\ \A j \in 1..(i - 1) : t[j] \in Whitespace
             last  == CHOOSE i \in 1..Len(t) :
                         t[i] \notin Whitespace
                         /\ \A j \in (i + 1)..Len(t) : t[j] \in Whitespace
         IN  SubSeq(t, first, last)

\* generateTextContent, line 36: the text returned when no API key is configured
Placeholder ==
    <<"[", "A", "I", " ", "g", "e", "n", "e", "r", "a", "t", "i", "o", "n", " ", "r",
      "e", "q", "u", "i", "r", "e", "s", " ", "A", "P", "I", " ", "k", "e", "y", "s",
      ".", " ", "P", "l", "e", "a", "s", "e", " ", "c", "o", "n", "f", "i", "g", "u",
      "r", "e", " ", "H", "u", "g", "g", "i", "n", "g", " ", "F", "a", "c", "e", " ",
      "o", "r", " ", "O", "p", "e", "n", "R", "o", "u", "t", "e", "r", " ", "A", "P",
      "I", " ", "k", "e", "y", " ", "t", "o", " ", "u", "s", "e", " ", "t", "h", "i",
      "s", " ", "f", "e", "a", "t", "u", "r", "e", ".", "]">>

\* generateWithHuggingFace, lines 143-148, each already in lower case (line 151)
promptKeywords ==
    << <<"g", "e", "n", "e", "r", "a", "t", "e">>,
       <<"w", "r", "i", "t", "e">>,
       <<"c", "r", "e", "a", "t", "e">>,
       <<"m", "a", "x", "i", "m", "u", "m", " ", "l", "e", "n", "g", "t", "h", ":">>,
       <<"i", "m", "p", "o", "r", "t", "a", "n", "t", ":">>,
       <<"s", "i", "n", "g", "l", "e", " ", "t", "w", "e", "e", "t">>,
       <<"p", "r", "o", "f", "e", "s", "s", "i", "o", "n", "a", "l", " ", "t", "o",
          "n", "e">>,
       <<"u", "s", "e", " ", "r", "e", "l", "e", "v", "a", "n", "t", " ", "h", "a",
          "s", "h", "t", "a", "g", "s">>,
       <<"c", "o", "n", "t", "e", "n", "t", " ", "t", "y", "p", "e", ":">>,
       <<"t", "o", "n", "e", ":">>,
       <<"t", "o", "p", "i", "c", ":">>,
       <<"i", "n", "s", "t", "r", "u", "c", "t", "i", "o", "n", "s", ":">>,
       <<"p", "r", "o", "m", "p", "t", ":">>,
       <<"h", "e", "r", "e", " ", "i", "s">>,
       <<"h", "e", "r", "e", " ", "a", "r", "e">>,
       <<"b", "e", "l", "o", "w", " ", "i", "s">>,
       <<"f", "o", "l", "l", "o", "w", "i", "n", "g", " ", "i", "s">> >>

\* generateWithHuggingFace, line 163: the labels of the first replace, in lower case
Labels ==
    << <<"t", "w", "e", "e", "t", ":">>,
       <<"t", "h", "r", "e", "a", "d", ":">>,
       <<"r", "e", "p", "l", "y", ":">>,
       <<"m", "e", "m", "e", ":">> >>

\* generateFallbackContent, lines 317-343: each template as the text before and
\* after ${topic}; a character outside ASCII is one string per UTF-16 code unit
templates ==
    [
      tweet |->
      <<
         [ pre |-> <<"U+D83D", "U+DE80", " ">>,
           suf |-> <<" ", "i", "s", " ", "t", "r", "e", "n", "d", "i", "n", "g", "!",
                    " ", "#", "c", "r", "y", "p", "t", "o", " ", "#", "t", "r", "a",
                    "d", "i", "n", "g">> ],
         [ pre |-> <<"U+D83D", "U+DCB0", " ", "E", "x", "p", "l", "o", "r", "i", "n",
                    "g", " ">>,
           suf |-> <<" ", "o", "p", "p", "o", "r", "t", "u", "n", "i", "t", "i", "e",
                    "s", " ", "#", "f", "i", "n", "a", "n", "c", "e">> ],
         [ pre |-> <<"U+D83D", "U+DCC8", " ">>,
           suf |-> <<" ", "a", "n", "a", "l", "y", "s", "i", "s", " ", "c", "o", "m",
                    "i", "n", "g", " ", "s", "o", "o", "n", "!", " ", "#", "m", "a",
                    "r", "k", "e", "t">> ],
         [ pre |-> <<"U+26A1", " ">>,
           suf |-> <<" ", "u", "p", "d", "a", "t", "e", ":", " ", "S", "t", "a", "y",
                    " ", "t", "u", "n", "e", "d", "!", " ", "#", "c", "r", "y", "p",
                    "t", "o">> ],
         [ pre |-> <<"U+D83C", "U+DFAF", " ">>,
           suf |-> <<" ", "i", "n", "s", "i", "g", "h", "t", "s", " ", "#", "t", "r",
                    "a", "d", "i", "n", "g", " ", "#", "b", "l", "o", "c", "k", "c",
                    "h", "a", "i", "n">> ]
      >>,
      thread |->
      <<
         [ pre |-> <<"U+D83E", "U+DDF5", " ", "L", "e", "t", "'", "s", " ", "t", "a",
                    "l", "k", " ", "a", "b", "o", "u", "t", " ">>,
           suf |-> <<".", ".", ".", " ", "(", "1", "/", "n", ")">> ],
         [ pre |-> <<"U+D83D", "U+DCCA", " ">>,
           suf |-> <<" ", "b", "r", "e", "a", "k", "d", "o", "w", "n", " ", "t", "h",
                    "r", "e", "a", "d", " ", "U+D83D", "U+DC47">> ],
         [ pre |-> <<"U+D83D", "U+DD0D", " ", "D", "e", "e", "p", " ", "d", "i", "v",
                    "e", " ", "i", "n", "t", "o", " ">>,
           suf |-> <<".", ".", ".", " ", "(", "1", "/", "x", ")">> ],
         [ pre |-> <<"U+D83D", "U+DCA1", " ">>,
           suf |-> <<" ", "e", "x", "p", "l", "a", "i", "n", "e", "d", " ", "s", "i",
                    "m", "p", "l", "y", ".", ".", ".", " ", "(", "1", "/", "n", ")">> ]
      >>,
      reply |->
      <<
         [ pre |-> <<"G", "r", "e", "a", "t", " ", "p", "o", "i", "n", "t", " ", "a",
                    "b", "o", "u", "t", " ">>,
           suf |-> <<"!", " ", "U+D83D", "U+DC4D">> ],
         [ pre |-> <<"I", "n", "t", "e", "r", "e", "s", "t", "i", "n", "g", " ", "p",
                    "e", "r", "s", "p", "e", "c", "t", "i", "v", "e", " ", "o", "n",
                    " ">>,
           suf |-> <<>> ],
         [ pre |-> <<"T", "h", "a", "n", "k", "s", " ", "f", "o", "r", " ", "s", "h",
                    "a", "r", "i", "n", "g", " ", "a", "b", "o", "u", "t", " ">>,
           suf |-> <<"!">> ],
         [ pre |-> <<>>,
           suf |-> <<" ", "i", "s", " ", "d", "e", "f", "i", "n", "i", "t", "e", "l",
                    "y", " ", "w", "o", "r", "t", "h", " ", "d", "i", "s", "c", "u",
                    "s", "s", "i", "n", "g">> ]
      >>,
      meme |->
      <<
         [ pre |-> <<"W", "h", "e", "n", " ">>,
           suf |-> <<" ", "h", "i", "t", "s", " ", "d", "i", "f", "f", "e", "r", "e",
                    "n", "t", " ", "U+D83D", "U+DE02">> ],
         [ pre |-> <<>>,
           suf |-> <<" ", "b", "e", " ", "l", "i", "k", "e", ".", ".", ".", " ",
                    "U+D83E", "U+DD14">> ],
         [ pre |-> <<"P", "O", "V", ":", " ", "Y", "o", "u", "'", "r", "e", " ", "e",
                    "x", "p", "l", "a", "i", "n", "i", "n", "g", " ">>,
           suf |-> <<" ", "U+D83D", "U+DCC8">> ],
         [ pre |-> <<>>,
           suf |-> <<" ", "e", "n", "e", "r", "g", "y", " ", "U+D83D", "U+DCAF">> ]
      >>
    ]

ContentTypes == {"tweet", "thread", "reply", "meme"}

\* generateFallbackContent (lines 312-354); rnd is the template index drawn
\* by Math.floor(Math.random() * options.length), counted from 1
generateFallbackContent(topic, contentType, maxLength, rnd) ==
    LET options == templates[contentType]
        content == options[rnd].pre \o topic \o options[rnd].suf
    IN  IF Len(content) > maxLength
        THEN substring(content, 0, maxLength - 3) \o Ellipsis
        ELSE content

\* The first replace of generateWithHuggingFace (line 163):
\* /^.*?(?:Tweet:|Thread:|Reply:|Meme:)\s*/i replaced by nothing
stripLabel(t) ==
    LET low == toLowerCase(t)
        At(i) == \E l \in 1..Len(Labels) : OccursAt(low, Labels[l], i)
    IN  IF \E i \in 1..Len(t) : At(i)
        THEN LET i   == CHOOSE i \in 1..Len(t) : At(i) /\ \A j \in 1..(i - 1) : ~At(j)
                 l   == CHOOSE l \in 1..Len(Labels) : OccursAt(low, Labels[l], i)
                 e   == i + Len(Labels[l])
                 k   == IF \A j \in e..Len(t) : t[j] \in Whitespace
                        THEN Len(t) + 1
                        ELSE CHOOSE j \in e..Len(t) :
                                t[j] \notin Whitespace
                                /\ \A m \in e..(j - 1) : t[m] \in Whitespace
             IN  SubSeq(t, k, Len(t))
        ELSE t

\* The second replace of generateWithHuggingFace (line 164):
\* /^["'](.*)['"]$/s replaced by $1
stripWrappingQuotes(t) ==
    IF Len(t) >= 2 /\ t[1] \in Quotes /\ t[Len(t)] \in Quotes
    THEN SubSeq(t, 2, Len(t) - 1)
    ELSE t

\* The replace of generateWithOpenRouter (line 250): /^["'](.*)['"]/s replaced
\* by $1; the greedy group ends at the last quote, what follows it is kept
stripLeadingQuoted(t) ==
    IF Len(t) >= 2 /\ t[1] \in Quotes /\ \E j \in 2..Len(t) : t[j] \in Quotes
    THEN LET j == CHOOSE j \in 2..Len(t) :
                     t[j] \in Quotes /\ \A m \in (j + 1)..Len(t) : t[m] \notin Quotes
         IN  SubSeq(t, 2, j - 1) \o SubSeq(t, j + 1, Len(t))
    ELSE t

\* The length limit of both providers (lines 169-176 and 254-261): cut at the
\* last space at or before cap - 3 when that space lies beyond 0.7 * cap
applyLengthLimit(t, cap) ==
    IF Len(t) > cap
    THEN LET lastSpace == lastIndexOf(t, " ", cap - 3)
             cutPoint  == IF 10 * lastSpace > 7 * cap THEN lastSpace ELSE cap - 3
         IN  trim(substring(t, 0, cutPoint)) \o Ellipsis
    ELSE t

Returned(text) == [kind |-> "return", text |-> text]
Thrown == [kind |-> "throw", text |-> <<>>]

(***************************************************************************)
(* Response data of the Hugging Face endpoint, as line 104 parses it:      *)
(*   "null"    no JSON body            "array"   [{generated_text: text}]  *)
(*   "empty"   []                      "object"  {generated_text: text}    *)
(*   "error"   {error: ...}            "string"  a JSON string, text       *)
(*   "message" {message: ...}          "other"   any other object          *)
(***************************************************************************)
Data(k, text) == [k |-> k, text |-> text]

\* !data (lines 114, 118)
Falsy(data) == data.k = "null" \/ (data.k = "string" /\ data.text = <<>>)

\* generateWithHuggingFace, lines 114 and 118: call the next model
retryNextModel(status, data) == status = 404 \/ status = 503 \/ Falsy(data)

\* generateWithHuggingFace, lines 125-130: generatedText as read from the data
generatedText(data) == IF data.k \in {"array", "object"} THEN data.text ELSE <<>>

\* generateWithHuggingFace, lines 150-151
containsPromptKeywords(generated) ==
    LET low == toLowerCase(generated)
    IN  \E k \in 1..Len(promptKeywords) : includes(low, promptKeywords[k])

\* generateWithHuggingFace, lines 154-155: containsPromptKeywords ||
\* length > effectiveMaxLength * 1.2; the cheaper disjunct is written first,
\* both are pure
shouldUseFallback(generated, maxLength) ==
    5 * Len(generated) > 6 * Min2(maxLength, AbsoluteMaxLength)
    \/ containsPromptKeywords(generated)

\* generateWithHuggingFace from line 124 on, given the data of the last model
\* called; rnd is the template drawn if the fallback of line 160 is taken
generateWithHuggingFace(topic, contentType, maxLength, data, rnd) ==
    LET generated == generatedText(data)
        effectiveMaxLength == Min2(maxLength, AbsoluteMaxLength)
        cleaned ==
            IF shouldUseFallback(generated, maxLength)
            THEN generateFallbackContent(topic, contentType, effectiveMaxLength, rnd)
            ELSE trim(stripWrappingQuotes(stripLabel(generated)))
        limited == applyLengthLimit(cleaned, effectiveMaxLength)
        final == IF Len(limited) > maxLength THEN substring(limited, 0, maxLength)
                 ELSE limited
    IN  IF generated # <<>> /\ final # <<>> THEN Returned(final)
        ELSE IF data.k \in {"error", "message"} THEN Thrown
        ELSE IF data.k = "string" THEN Returned(data.text)
        ELSE Thrown

(***************************************************************************)
(* Responses of the OpenRouter endpoint: "reject" (fetch fails), "notOk"   *)
(* (line 238), "malformed" (no choices[0].message.content, or an empty     *)
(* one), "content" with a non-empty text.                                  *)
(***************************************************************************)
generateWithOpenRouter(topic, contentType, maxLength, resp) ==
    IF resp.k # "content" \/ resp.text = <<>>
    THEN Thrown
    ELSE Returned(applyLengthLimit(trim(stripLeadingQuoted(trim(resp.text))), maxLength))

(***************************************************************************)
(* generateTextContent (lines 29-69): the catch blocks.                    *)
(***************************************************************************)
\* Mutant of afterOpenRouter: the call is awaited outside a try block
afterOpenRouterNoCatch(res, args, rnd) == res

\* lines 46-51 and 60-65: the OpenRouter call settled
afterOpenRouter(res, args, rnd) ==
    IF res.kind = "throw"
    THEN Returned(generateFallbackContent(args.topic, args.contentType, args.maxLength, rnd))
    ELSE res

\* lines 43-55: the Hugging Face call threw and no OpenRouter key is set
afterHuggingFaceAlone(res, args, rnd) ==
    IF res.kind = "throw"
    THEN Returned(generateFallbackContent(args.topic, args.contentType, args.maxLength, rnd))
    ELSE res

(***************************************************************************)
(* The inputs the calls are checked on.                                    *)
(***************************************************************************)
Chars(n, ch) == [i \in 1..n |-> ch]
Words(n) == [i \in 1..n |-> IF i % 6 = 0 THEN " " ELSE "a"]

Topics == { <<"B", "T", "C">>, Chars(MaxTopicLen, "x") }

MaxLengths == {-1, 0, 2, 3, 50, AbsoluteMaxLength, MaxRequested}

EchoText ==
    <<"G", "e", "n", "e", "r", "a", "t", "e", " ", "a", " ", "t", "w", "e", "e", "t",
      " ", "a", "b", "o", "u", "t", " ", "B", "i", "t", "c", "o", "i", "n">>

ProviderTexts ==
    { <<>>,
      <<" ", " ">>,
      <<"\"", "\"">>,
      <<"\"", "o", "k", "\"">>,
      <<"R", "e", "p", "l", "y", ":", " ", "o", "k">>,
      <<"T", "w", "e", "e", "t", ":", " ">>,
      EchoText,
      Words(2), Words(60), Words(61), Words(AbsoluteMaxLength),
      Words(AbsoluteMaxLength + 1), Words(336), Words(MaxTextLen),
      Chars(MaxTextLen, "a") }

HFData ==
    {Data(k, <<>>) : k \in {"null", "empty", "error", "message", "other"}}
    \cup {Data("array", t) : t \in ProviderTexts}
    \cup {Data(k, t) : k \in {"object", "string"},
                       t \in {<<>>, Words(2), Words(MaxTextLen)}}

HFResponses ==
    {[status |-> 200, data |-> d] : d \in HFData}
    \cup {[status |-> s, data |-> d] : s \in {404, 503},
                                       d \in {Data("null", <<>>), Data("array", Words(2))}}

ORResponses ==
    {Data(k, <<>>) : k \in {"reject", "notOk", "malformed"}}
    \cup {Data("content", t) : t \in ProviderTexts}

Templates(contentType) == 1..Len(templates[contentType])

(***************************************************************************)
(* One generateTextContent call.                                           *)
(***************************************************************************)
GenDone(out, calls) ==
    /\ genPc' = "done"
    /\ genTry' = 0
    /\ genOut' = out
    /\ genCalls' = calls
    /\ UNCHANGED <<genKeys, genArgs>>

\* lines 35-61, up to the first provider call
GenBegin ==
    /\ genPc = "start"
    /\ IF ~genKeys.hf /\ ~genKeys.or
       THEN GenDone(Returned(Placeholder), <<"placeholder">>)
       ELSE /\ genPc' = IF genKeys.hf THEN "hf" ELSE "or"
            /\ genTry' = IF genKeys.hf THEN 1 ELSE 0
            /\ UNCHANGED <<genKeys, genArgs, genOut, genCalls>>
    /\ UNCHANGED outsideGen

\* Mutant of GenAfterHuggingFace: OpenRouter is called whenever its key is set
GenAfterHuggingFaceThenOpenRouter(res, rnd, calls) ==
    IF genKeys.or
    THEN /\ genPc' = "or"
         /\ genTry' = 0
         /\ genCalls' = Append(calls, IF res.kind = "throw" THEN "A:throw" ELSE "A:return")
         /\ UNCHANGED <<genKeys, genArgs, genOut>>
    ELSE GenDone(afterHuggingFaceAlone(res, genArgs, rnd),
                 IF res.kind = "throw"
                 THEN calls \o <<"A:throw", "template">>
                 ELSE Append(calls, "A:return"))

\* The Hugging Face call of line 42 has settled with res; calls is genCalls
\* with what the call did before it settled
GenAfterHuggingFace(res, rnd, calls) ==
    IF res.kind = "throw" /\ genKeys.or
    THEN /\ genPc' = "or"
         /\ genTry' = 0
         /\ genCalls' = Append(calls, "A:throw")
         /\ UNCHANGED <<genKeys, genArgs, genOut>>
    ELSE GenDone(afterHuggingFaceAlone(res, genArgs, rnd),
                 IF res.kind = "throw"
                 THEN calls \o <<"A:throw", "template">>
                 ELSE Append(calls, "A:return"))

\* genCalls once generateWithHuggingFace has read the data of the last model:
\* "A:rejected" marks that line 160 replaced the provider's text by a template
afterProviderText(data) ==
    IF generatedText(data) # <<>> /\ shouldUseFallback(generatedText(data), genArgs.maxLength)
    THEN Append(genCalls, "A:rejected")
    ELSE genCalls

\* A model of callHuggingFaceModel answers (lines 113-121) or its fetch rejects.
\* One draw rnd serves both generateFallbackContent calls: a call that takes
\* the one of line 160 returns, and never reaches the one of line 54.
GenHuggingFaceSettles ==
    /\ genPc = "hf"
    /\ \E rnd \in Templates(genArgs.contentType) :
         \/ GenAfterHuggingFace(Thrown, rnd, genCalls)
         \/ \E r \in HFResponses :
              IF genTry < 3 /\ retryNextModel(r.status, r.data)
              THEN /\ genTry' = genTry + 1
                   /\ UNCHANGED <<genKeys, genArgs, genPc, genOut, genCalls>>
              ELSE GenAfterHuggingFace(
                       generateWithHuggingFace(genArgs.topic, genArgs.contentType,
                                               genArgs.maxLength, r.data, rnd), rnd,
                       afterProviderText(r.data))
    /\ UNCHANGED outsideGen

\* The OpenRouter call of line 47 or 61 settles
GenOpenRouterSettles ==
    /\ genPc = "or"
    /\ \E rnd \in Templates(genArgs.contentType), r \in ORResponses :
         LET res == generateWithOpenRouter(genArgs.topic, genArgs.contentType,
                                           genArgs.maxLength, r)
         IN  GenDone(afterOpenRouter(res, genArgs, rnd),
                     IF res.kind = "throw"
                     THEN genCalls \o <<"B:throw", "template">>
                     ELSE Append(genCalls, "B:return"))
    /\ UNCHANGED outsideGen

InitGen ==
    /\ InitEngine
    /\ InitHandlingIdle
    /\ InitLateIdle
    /\ InitTrendsIdle
    /\ InitPlannerIdle
    /\ InitCache
    /\ InitEngageIdle
    /\ genKeys \in [hf : BOOLEAN, or : BOOLEAN]
    /\ genArgs \in [topic : Topics, contentType : ContentTypes, maxLength : MaxLengths]
    /\ genPc = "start"
    /\ genTry = 0
    /\ genOut = [kind |-> "none", text |-> <<>>]
    /\ genCalls = <<>>

NextGen ==
    \/ GenBegin
    \/ GenHuggingFaceSettles
    \/ GenOpenRouterSettles

SpecGen == InitGen /\ [][NextGen]_vars

(***************************************************************************)
(* Claims about the generation fallback chain.                             *)
(***************************************************************************)
\* C4 (as claimed): the text a call returns is never longer than the
\* requested maxLength.
C4_LengthWithinRequested ==
    genPc = "done" => Len(genOut.text) <= genArgs.maxLength

\* C5: a generateTextContent call settles by returning a text, never by
\* throwing, whatever the providers answer.
C5_NeverRaises ==
    genPc = "done" => genOut.kind = "return"

\* C5 witness: both providers were called and failed, and the call returned.
C5_Witness ==
    /\ genPc = "done" /\ genOut.kind = "return"
    /\ genCalls = <<"A:throw", "B:throw", "template">>

\* C6 (as claimed): the text a call returns is never empty.
C6_NonEmpty ==
    genPc = "done" => genOut.text # <<>>

\* What genCalls holds before its entry i
Before(i, x) == \E j \in 1..(i - 1) : genCalls[j] = x

\* C22: the providers are tried in strict priority order.  With no key set
\* the placeholder is returned and no provider is called; Hugging Face
\* (Provider A), when its key is set, is called first; OpenRouter (Provider
\* B) is called only if Provider A has no key or its call threw, and never
\* after Provider A returned; generateTextContent falls back to a template
\* only after every provider with a key has thrown.
C22_ProviderPriority ==
    /\ (~genKeys.hf /\ ~genKeys.or)
          => /\ genPc \in {"start", "done"}
             /\ genPc = "done" => genCalls = <<"placeholder">> /\ genOut = Returned(Placeholder)
    /\ genPc = "hf" => genKeys.hf /\ genCalls = <<>>
    /\ genPc = "or"
          => /\ genKeys.or
             /\ genKeys.hf => Before(Len(genCalls) + 1, "A:throw")
             /\ ~Before(Len(genCalls) + 1, "A:return")
    /\ \A i \in 1..Len(genCalls) :
          /\ genCalls[i] \in {"B:return", "B:throw"}
                => /\ genKeys.or
                   /\ genKeys.hf => Before(i, "A:throw")
                   /\ ~Before(i, "A:return")
          /\ genCalls[i] = "template"
                => /\ genKeys.hf \/ genKeys.or
                   /\ genKeys.hf => Before(i, "A:throw")
                   /\ genKeys.or => Before(i, "B:throw")
          /\ genCalls[i] = "placeholder" => ~genKeys.hf /\ ~genKeys.or
          /\ genCalls[i] \in {"A:return", "A:throw", "A:rejected"} => genKeys.hf

\* C22 witness: with both keys set, Provider A threw, Provider B was called
\* next and its text was returned.
C22_Witness ==
    /\ genPc = "done" /\ genKeys.hf /\ genKeys.or
    /\ genCalls = <<"A:throw", "B:return">>
    /\ genOut.kind = "return" /\ genOut.text # <<>>

\* C23 (as claimed): when Provider A's text is rejected (a prompt keyword in
\* it, or longer than 1.2 x min(maxLength, 280)), the call returns what
\* Provider A's handler made of a template of the requested content type with
\* the topic in it, cut to min(maxLength, 280) and, by line 180, to
\* maxLength; Provider B is not called and no other text is produced.
C23_RejectedTextGivesTemplate ==
    (genPc = "done" /\ Before(Len(genCalls) + 1, "A:rejected"))
        => /\ genCalls = <<"A:rejected", "A:return">>
           /\ \E rnd \in Templates(genArgs.contentType) :
                 LET template == generateFallbackContent(
                                     genArgs.topic, genArgs.contentType,
                                     Min2(genArgs.maxLength, AbsoluteMaxLength), rnd)
                 IN  genOut.text = IF Len(template) > genArgs.maxLength
                                   THEN substring(template, 0, genArgs.maxLength)
                                   ELSE template

\* C24 (as claimed, for a requested maxLength of 280 or more): a text that
\* comes from Provider A or from Provider B is returned with at most
\* min(maxLength, 280) = 280 characters.
C24_ProviderTextWithinCap ==
    (/\ genPc = "done"
     /\ genArgs.maxLength >= AbsoluteMaxLength
     /\ genCalls[Len(genCalls)] \in {"A:return", "B:return"}
     /\ ~Before(Len(genCalls) + 1, "A:rejected"))
        => Len(genOut.text) <= AbsoluteMaxLength


(***************************************************************************)
(* Claims about the cycle scheduler.                                       *)
(***************************************************************************)
CyclesInFlight == {c \in CycleIds : InFlight(c)}

\* C1 (as claimed): whenever a cycle has just counted a reply, replyCount is
\* at most the maxRepliesPerHour of that cycle's config, also when cycles
\* interleave at their await points.
C1_ReplyCountWithinCap ==
    (lastOp.op = "cycle" /\ lastOp.ev = "replied")
        => replyCount <= cycles[lastOp.c].cfg.maxRepliesPerHour

\* C2 (as claimed): at most one execution of runAutonomousCycle is in flight
\* at any time.
C2_OneCycleInFlight == Cardinality(CyclesInFlight) <= 1

\* C3 (as claimed): once stop() has returned and until a later start(), no
\* timer callback begins a new cycle: a cycle never begins by a tick while
\* isRunning is false.
C3_NoCycleAfterStop == ~(lastOp.op = "tick" /\ ~isRunning)

\* C7: no step of a cycle lets an exception out of runAutonomousCycle, stops
\* the engine or disarms a timer; and when the cycle that ends is the first
\* cycle of a start() call, failed or not, that call arms its timer.
C7_CycleFailureContained ==
    [][ \A c \in CycleIds :
          lastOp' = Op("cycle", c, lastOp'.ev)
             => /\ cycles'[c].outcome # "threw"
                /\ isRunning' = isRunning
                /\ timers \subseteq timers'
                /\ (cycles'[c].pc = "done" /\ cycles[c].origin = "start")
                      => /\ intervalId' = c
                         /\ \E t \in timers' : t.id = c /\ t.cfg = cycles[c].cfg
                /\ (cycles'[c].pc # "done" \/ cycles[c].origin = "tick")
                      => intervalId' = intervalId /\ timers' = timers ]_vars

\* C7 witness: the first cycle of a start() call failed at the credential
\* lookup, the failure was recorded, and a tick of the timer armed after it
\* has begun another cycle while the engine is still running.
C7_Witness ==
    \E c1, c2 \in CycleIds :
        /\ cycles[c1].origin = "start" /\ cycles[c1].outcome = "failed"
        /\ cycles[c2].origin = "tick" /\ cycles[c2].timer = c1
        /\ isRunning /\ intervalId = c1
        /\ \E i \in 1..Len(activities) : ~activities[i].success

\* C8: a start() call made while the engine is running, or with a disabled
\* config, changes nothing of the engine: isRunning, the timers and their
\* configs, replyCount, the activity buffer, and no cycle begins.
C8_StartNoop ==
    [][ (lastOp'.op = "start" /\ (isRunning \/ lastOp'.ev = "disabled"))
           => UNCHANGED <<isRunning, intervalId, timers, replyCount, activities,
                          cycles, nextId>> ]_vars

\* C8 witness: start() was called with an enabled config on a running engine
\* whose timer is armed, and began nothing.
C8_Witness ==
    /\ lastOp = Op("start", 0, "enabled")
    /\ isRunning /\ intervalId # NoTimer
    /\ nextId <= MaxCycles

C10_MissingCredentialsSkip ==
    [][ \A c \in CycleIds :
          (cycles[c].pc = "getUser" /\ lastOp' = Op("cycle", c, "absent"))
             => /\ cycles'[c].pc = "done" /\ cycles'[c].outcome = "skipped"
                /\ replyCount' = replyCount
                /\ activities' = activities
                /\ isRunning' = isRunning
                /\ timers \subseteq timers'
                /\ cycles[c].origin = "start" => intervalId' = c
                /\ cycles[c].origin = "tick" => intervalId' = intervalId ]_vars

\* C10 witness: a timer-begun cycle was skipped for missing credentials while
\* the engine is running with its timer armed.
C10_Witness ==
    /\ lastOp.op = "cycle" /\ lastOp.ev = "absent"
    /\ cycles[lastOp.c].origin = "tick" /\ cycles[lastOp.c].outcome = "skipped"
    /\ isRunning /\ intervalId # NoTimer /\ timers # {}

\* C12 (as claimed): a reply attempt whose platform call fails has consumed
\* one unit of budget: replyCount after the failed attempt is replyCount
\* before it plus 1.
C12_FailedReplyConsumesBudget ==
    [][ (lastOp'.op = "cycle" /\ lastOp'.ev = "replyFailed")
           => replyCount' = replyCount + 1 ]_vars

\* C13: proactive generation is independent of the reply budget.  Whatever
\* replyCount is, the random draw alone decides that a cycle goes on to
\* generateAutonomousContent, and no step of generateAutonomousContent,
\* succeeding or failing, changes replyCount.
C13_ProactiveOutsideBudget ==
    /\ [](\A c \in CycleIds :
             InFlight(c)
                => /\ ProactiveStep(cycles[c], replyCount, activities, TRUE).cyc.pc = "aGen"
                   /\ ProactiveStep(cycles[c], replyCount, activities, TRUE).rc = replyCount)
    /\ [][ \A c \in CycleIds :
             (cycles[c].pc \in {"aGen", "aPost", "aSave"} /\ lastOp'.op = "cycle"
              /\ lastOp'.c = c)
                => replyCount' = replyCount ]_vars

\* C13 witness: a cycle is posting proactive content although replyCount has
\* reached the maxRepliesPerHour of its config.
C13_Witness ==
    \E c \in CycleIds :
        /\ cycles[c].pc = "aPost" /\ lastOp = Op("cycle", c, "generated")
        /\ cycles[c].cfg.enabled
        /\ replyCount >= cycles[c].cfg.maxRepliesPerHour

(***************************************************************************)
(*                         The trend aggregator                            *)
(*                                                                         *)
(* SpecTrends follows one analyzeTrendingPosts call (services/trending.ts) *)
(* up to combineTrends: getCryptoTrends, analyzeTwitterTrends, and the     *)
(* merge.  Keywords and texts are sequences of code units.  A              *)
(* relevanceScore is held in units of 1 / ScoreUnit, which makes the       *)
(* average engagement of up to MaxTweets tweets and the half of it whole   *)
(* numbers.                                                                *)
(***************************************************************************)
MaxTweets == 3        \* tweets returned by the timeline source

RECURSIVE Factorial(_)
Factorial(n) == IF n <= 1 THEN 1 ELSE n * Factorial(n - 1)

ScoreUnit == 2 * Factorial(MaxTweets)

CRYPTO_KEYWORDS ==
    << <<"b", "i", "t", "c", "o", "i", "n">>,
       <<"b", "t", "c">>,
       <<"e", "t", "h", "e", "r", "e", "u", "m">>,
       <<"e", "t", "h">>,
       <<"c", "r", "y", "p", "t", "o">>,
       <<"c", "r", "y", "p", "t", "o", "c", "u", "r", "r", "e", "n", "c", "y">>,
       <<"d", "e", "f", "i">>,
       <<"n", "f", "t">>,
       <<"b", "l", "o", "c", "k", "c", "h", "a", "i", "n">>,
       <<"t", "r", "a", "d", "i", "n", "g">>,
       <<"a", "l", "t", "c", "o", "i", "n">>,
       <<"h", "o", "d", "l">>,
       <<"w", "e", "b", "3">>,
       <<"d", "a", "o">>,
       <<"y", "i", "e", "l", "d">>,
       <<"s", "t", "a", "k", "i", "n", "g">>,
       <<"m", "i", "n", "i", "n", "g">>,
       <<"w", "a", "l", "l", "e", "t">> >>

TopTopics == 20       \* combineTrends keeps the first 20
TopTwitter == 15      \* analyzeTwitterTrends keeps the first 15
MinMentions == 2      \* a keyword counts from 2 tweets on

Topic(keyword, volume, sentiment, category, score) ==
    [ keyword |-> keyword, volume |-> volume, sentiment |-> sentiment,
      category |-> category, relevanceScore |-> score ]

getFallbackCryptoTrends ==
    << Topic(<<"b", "i", "t", "c", "o", "i", "n">>, 1000000, "positive", "crypto", 95 * ScoreUnit),
       Topic(<<"e", "t", "h", "e", "r", "e", "u", "m">>, 800000, "positive", "crypto", 90 * ScoreUnit),
       Topic(<<"d", "e", "f", "i">>, 500000, "neutral", "defi", 85 * ScoreUnit),
       Topic(<<"t", "r", "a", "d", "i", "n", "g">>, 300000, "positive", "trading", 80 * ScoreUnit) >>

categorizeKeyword(keyword) ==
    CASE keyword \in {<<"b", "i", "t", "c", "o", "i", "n">>, <<"b", "t", "c">>, <<"e", "t", "h", "e", "r", "e", "u", "m">>, <<"e", "t", "h">>, <<"a", "l", "t", "c", "o", "i", "n">>} -> "crypto"
      [] keyword \in {<<"d", "e", "f", "i">>, <<"y", "i", "e", "l", "d">>, <<"s", "t", "a", "k", "i", "n", "g">>, <<"d", "a", "o">>}            -> "defi"
      [] keyword \in {<<"n", "f", "t">>, <<"o", "p", "e", "n", "s", "e", "a">>, <<"m", "i", "n", "t">>}                   -> "nft"
      [] keyword \in {<<"t", "r", "a", "d", "i", "n", "g">>, <<"h", "o", "d", "l">>, <<"p", "u", "m", "p">>, <<"d", "u", "m", "p">>}            -> "trading"
      [] OTHER                                              -> "general"

\* Array.prototype.sort((a, b) => b.relevanceScore - a.relevanceScore):
\* highest score first, topics of equal score keeping their order
sortByRelevance(topics) ==
    LET n == Len(topics)
        before(i) == {j \in 1..n :
                        \/ topics[j].relevanceScore > topics[i].relevanceScore
                        \/ /\ topics[j].relevanceScore = topics[i].relevanceScore
                           /\ j < i}
        place == SubSeq([i \in 1..n |-> 1 + Cardinality(before(i))], 1, n)
    IN  SubSeq([p \in 1..n |-> topics[CHOOSE i \in 1..n : place[i] = p]], 1, n)

TrendsReturned(topics) == [kind |-> "return", topics |-> topics]
TrendsThrown == [kind |-> "throw", topics |-> <<>>]

(***************************************************************************)
(* getCryptoTrends.  The market answer is "throw" (the request rejects or  *)
(* the response is not ok), "notArray" (a JSON body that is no array, on   *)
(* which .map is not a function) or "array" of entries; an entry without a *)
(* name makes crypto.name.toLowerCase() throw.  All of it is inside try.   *)
(***************************************************************************)
mapCryptos(list) ==
    [i \in 1..Len(list) |->
        Topic(toLowerCase(list[i].name),
              IF list[i].hasVolume THEN list[i].volume ELSE 0,
              IF list[i].change > 0 THEN "positive" ELSE "negative",
              "crypto",
              Max2(0, 100 - (i - 1) * 5) * ScoreUnit)]

marketThrows(market) ==
    \/ market.kind # "array"
    \/ \E i \in 1..Len(market.list) : ~market.list[i].named

\* Mutant of getCryptoTrends: no catch block, a failure of the source is thrown on
getCryptoTrendsNoCatch(market) ==
    IF marketThrows(market)
    THEN TrendsThrown
    ELSE TrendsReturned(mapCryptos(market.list))

getCryptoTrends(market) ==
    IF marketThrows(market)
    THEN TrendsReturned(getFallbackCryptoTrends)
    ELSE TrendsReturned(mapCryptos(market.list))

(***************************************************************************)
(* analyzeTwitterTrends.  The timeline answer is "throw" or "tweets".      *)
(***************************************************************************)
engagement(tweet) == IF tweet.hasMetrics THEN tweet.likes + tweet.retweets ELSE 0

\* The tweets whose lower-cased text includes the keyword
mentioning(tweets, keyword) ==
    {i \in 1..Len(tweets) : includes(toLowerCase(tweets[i].text), keyword)}

RECURSIVE sumEngagement(_, _)
sumEngagement(tweets, among) ==
    IF among = {}
    THEN 0
    ELSE LET i == CHOOSE i \in among : TRUE
         IN  engagement(tweets[i]) + sumEngagement(tweets, among \ {i})

\* The keys of keywordCounts in the order of their insertion (a Map keeps
\* it): by the first tweet that mentions the keyword, then by the place of
\* the keyword in CRYPTO_KEYWORDS; only those counted at least twice
countedKeywords(tweets) ==
    LET n == Len(CRYPTO_KEYWORDS)
        hits == SubSeq([k \in 1..n |-> mentioning(tweets, CRYPTO_KEYWORDS[k])], 1, n)
        first == SubSeq([k \in 1..n |->
                            IF hits[k] = {}
                            THEN 0
                            ELSE CHOOSE i \in hits[k] : \A j \in hits[k] : i <= j], 1, n)
        counted == {k \in 1..n : Cardinality(hits[k]) >= MinMentions}
        earlier == SubSeq([k \in 1..n |->
                              Cardinality({h \in counted :
                                              \/ first[h] < first[k]
                                              \/ (first[h] = first[k] /\ h < k)})],
                          1, n)
    IN  SubSeq([p \in 1..Cardinality(counted) |->
                   CRYPTO_KEYWORDS[CHOOSE k \in counted : earlier[k] = p - 1]],
               1, Cardinality(counted))

\* Mutant of twitterTopic: the engagements are summed, not averaged
twitterTopicSummedEngagement(tweets, keyword) ==
    LET among == mentioning(tweets, keyword)
        count == Cardinality(among)
        sum   == sumEngagement(tweets, among)
    IN  Topic(keyword, count,
              IF sum > 10 * count THEN "positive" ELSE "neutral",
              categorizeKeyword(keyword),
              Min2(100 * ScoreUnit, count * 10 * ScoreUnit + sum * ScoreUnit))

twitterTopic(tweets, keyword) ==
    LET among == mentioning(tweets, keyword)
        count == Cardinality(among)
        sum   == sumEngagement(tweets, among)
    IN  Topic(keyword, count,
              IF sum > 10 * count THEN "positive" ELSE "neutral",
              categorizeKeyword(keyword),
              Min2(100 * ScoreUnit, count * 10 * ScoreUnit + (sum * ScoreUnit) \div count))

analyzeTwitterTrends(timeline) ==
    IF timeline.kind = "throw"
    THEN <<>>
    ELSE LET keys == countedKeywords(timeline.list)
             topics == SubSeq([p \in 1..Len(keys) |-> twitterTopic(timeline.list, keys[p])],
                              1, Len(keys))
         IN  sliceTo(sortByRelevance(topics), TopTwitter)

(***************************************************************************)
(* combineTrends.  combined is the Map, as the sequence of its values in   *)
(* the order of insertion.                                                 *)
(***************************************************************************)
has(combined, keyword) == \E i \in 1..Len(combined) : combined[i].keyword = keyword

\* Map.prototype.set
mapSet(combined, trend) ==
    IF has(combined, trend.keyword)
    THEN [i \in 1..Len(combined) |->
             IF combined[i].keyword = trend.keyword THEN trend ELSE combined[i]]
    ELSE Append(combined, trend)

\* Mutant of mergeTrend: the whole timeline score is added to the existing one
mergeTrendFullBoost(combined, trend) ==
    IF has(combined, trend.keyword)
    THEN [i \in 1..Len(combined) |->
             IF combined[i].keyword = trend.keyword
             THEN [combined[i] EXCEPT !.relevanceScore = @ + trend.relevanceScore,
                                      !.volume = @ + trend.volume]
             ELSE combined[i]]
    ELSE Append(combined, trend)

\* The body of the second loop (lines 160-167)
mergeTrend(combined, trend) ==
    IF has(combined, trend.keyword)
    THEN [i \in 1..Len(combined) |->
             IF combined[i].keyword = trend.keyword
             THEN [combined[i] EXCEPT !.relevanceScore = @ + trend.relevanceScore \div 2,
                                      !.volume = @ + trend.volume]
             ELSE combined[i]]
    ELSE Append(combined, trend)

RECURSIVE setAll(_, _)
setAll(combined, trends) ==
    IF trends = <<>>
    THEN combined
    ELSE setAll(mapSet(combined, Head(trends)), Tail(trends))

RECURSIVE mergeAll(_, _)
mergeAll(combined, trends) ==
    IF trends = <<>>
    THEN combined
    ELSE mergeAll(mergeTrend(combined, Head(trends)), Tail(trends))

\* Mutant of combineTrends: the values of the Map are not sorted
combineTrendsInInsertionOrder(crypto, twitter) ==
    sliceTo(mergeAll(setAll(<<>>, crypto), twitter), TopTopics)

combineTrends(crypto, twitter) ==
    sliceTo(sortByRelevance(mergeAll(setAll(<<>>, crypto), twitter)), TopTopics)

(***************************************************************************)
(* The answers of the two sources.                                         *)
(***************************************************************************)
Crypto(named, name, hasVolume, volume, change) ==
    [ named |-> named, name |-> name, hasVolume |-> hasVolume, volume |-> volume,
      change |-> change ]

Cryptos ==
    { Crypto(TRUE, <<"B", "i", "t", "c", "o", "i", "n">>, TRUE, 1000, 1),
      Crypto(TRUE, <<"S", "o", "l", "a", "n", "a">>, FALSE, 0, -1),
      Crypto(FALSE, <<>>, TRUE, 10, 1) }

MaxCryptos == 2       \* entries of a short market answer

\* A full answer: 20 entries, as asked for by getTrendingCryptocurrencies(20)
FullMarket == [i \in 1..TopTopics |-> Crypto(TRUE, <<UpperCase[i]>>, TRUE, 100 * i, 1)]

Markets ==
    { [kind |-> k, list |-> <<>>] : k \in {"throw", "notArray"} }
    \cup { [kind |-> "array", list |-> l] :
             l \in UNION { [1..n -> Cryptos] : n \in 0..MaxCryptos } \cup { FullMarket } }

Tweet(text, hasMetrics, likes, retweets) ==
    [ text |-> text, hasMetrics |-> hasMetrics, likes |-> likes, retweets |-> retweets ]

TimelineTweets ==
    { Tweet(t, m[1], m[2], m[3]) :
        t \in { <<"D", "e", "F", "i">>, <<"b", "i", "t", "c", "o", "i", "n", " ", "h", "o", "d", "l">>,
                <<"E", "t", "h", "e", "r", "e", "u", "m">> },
        m \in { <<FALSE, 0, 0>>, <<TRUE, 15, 5>>, <<TRUE, 5, 0>> } }

\* A text that holds every keyword of the vocabulary
RECURSIVE JoinWords(_)
JoinWords(words) ==
    IF words = <<>> THEN <<>> ELSE Head(words) \o <<" ">> \o JoinWords(Tail(words))

\* Tweets that make many topics, and topics of a high score
BusyTweets ==
    { Tweet(JoinWords(CRYPTO_KEYWORDS), TRUE, 15, 5),
      Tweet(<<"b", "i", "t", "c", "o", "i", "n", " ", "h", "o", "d", "l">>, TRUE, 60, 30) }

Timelines ==
    { [kind |-> "throw", list |-> <<>>] }
    \cup { [kind |-> "tweets", list |-> l] :
             l \in UNION { [1..n -> TimelineTweets] : n \in 0..MaxTweets } }
    \cup { [kind |-> "tweets", list |-> l] :
             l \in UNION { [1..n -> BusyTweets] : n \in MinMentions..MaxTweets } }

(***************************************************************************)
(* One analyzeTrendingPosts call, up to step 3.                            *)
(***************************************************************************)
\* line 42: the awaited getCryptoTrends settles; a rejection would go to the
\* catch of line 70, which throws it on
TrendsMarketSettles ==
    /\ trendPc = "market"
    /\ LET res == getCryptoTrends(trendSources.market)
       IN  /\ cryptoTrends' = res.topics
           /\ trendPc' = IF res.kind = "throw" THEN "failed" ELSE "timeline"
    /\ UNCHANGED <<trendSources, twitterTrends, trendingTopics>>
    /\ UNCHANGED outsideTrends

\* lines 45-48: the awaited analyzeTwitterTrends settles, then combineTrends
TrendsTimelineSettles ==
    /\ trendPc = "timeline"
    /\ LET twitter == analyzeTwitterTrends(trendSources.timeline)
       IN  /\ twitterTrends' = twitter
           /\ trendingTopics' = combineTrends(cryptoTrends, twitter)
    /\ trendPc' = "done"
    /\ UNCHANGED <<trendSources, cryptoTrends>>
    /\ UNCHANGED outsideTrends

InitTrends ==
    /\ InitEngine
    /\ InitHandlingIdle
    /\ InitLateIdle
    /\ InitGenIdle
    /\ InitPlannerIdle
    /\ InitCache
    /\ InitEngageIdle
    /\ trendSources \in [market : Markets, timeline : Timelines]
    /\ trendPc = "market"
    /\ cryptoTrends = <<>>
    /\ twitterTrends = <<>>
    /\ trendingTopics = <<>>

NextTrends ==
    \/ TrendsMarketSettles
    \/ TrendsTimelineSettles

SpecTrends == InitTrends /\ [][NextTrends]_vars

(***************************************************************************)
(* Claims about the trend aggregator.                                      *)
(***************************************************************************)
Keywords(topics) == {topics[i].keyword : i \in 1..Len(topics)}

\* The topic of a keyword in a list: the last one, which is the one a Map
\* built from the list holds
TopicOf(topics, keyword) ==
    topics[CHOOSE i \in 1..Len(topics) :
              /\ topics[i].keyword = keyword
              /\ \A j \in (i + 1)..Len(topics) : topics[j].keyword # keyword]

\* C16: in the list combineTrends returns, a keyword found in both the market
\* topics and the timeline topics has the market score plus half the
\* timeline score and the sum of the two volumes; a keyword found in one of
\* them only has the score and the volume of that source, unchanged.  The
\* list holds every keyword of either source, up to 20.
C16_MergeScores ==
    trendPc = "done"
       => /\ \A i \in 1..Len(trendingTopics) :
                LET e == trendingTopics[i]
                    inMarket == e.keyword \in Keywords(cryptoTrends)
                    inTimeline == e.keyword \in Keywords(twitterTrends)
                    m == TopicOf(cryptoTrends, e.keyword)
                    t == TopicOf(twitterTrends, e.keyword)
                IN  /\ inMarket \/ inTimeline
                    /\ (inMarket /\ inTimeline)
                          => /\ 2 * e.relevanceScore
                                   = 2 * m.relevanceScore + t.relevanceScore
                             /\ e.volume = m.volume + t.volume
                    /\ (inMarket /\ ~inTimeline)
                          => e.relevanceScore = m.relevanceScore /\ e.volume = m.volume
                    /\ (inTimeline /\ ~inMarket)
                          => e.relevanceScore = t.relevanceScore /\ e.volume = t.volume
          /\ Keywords(trendingTopics) \subseteq Keywords(cryptoTrends) \cup Keywords(twitterTrends)
          /\ Len(trendingTopics)
                = Min2(TopTopics,
                       Cardinality(Keywords(cryptoTrends) \cup Keywords(twitterTrends)))
          /\ Cardinality(Keywords(trendingTopics)) = Len(trendingTopics)

\* C16 witness: the market answered with its own entries, and the result has
\* a keyword of both sources, one of the market only and one of the timeline
\* only.
C16_Witness ==
    /\ trendPc = "done"
    /\ ~marketThrows(trendSources.market)
    /\ Keywords(trendingTopics) \cap Keywords(cryptoTrends) \cap Keywords(twitterTrends) # {}
    /\ Keywords(trendingTopics) \ Keywords(twitterTrends) # {}
    /\ Keywords(trendingTopics) \ Keywords(cryptoTrends) # {}

\* C17: a failing source neither fails nor empties the aggregation.  The
\* call never ends by throwing; when the market source fails, the topics of
\* getCryptoTrends are the 4 fallback entries, every timeline topic is
\* merged into the result and the result is not empty; when the timeline
\* source throws, the result is the market topics (the first 20 by score).
C17_SourceFailureContained ==
    /\ trendPc # "failed"
    /\ trendPc = "done"
          => /\ marketThrows(trendSources.market)
                   => /\ cryptoTrends = getFallbackCryptoTrends
                      /\ Keywords(getFallbackCryptoTrends) \subseteq Keywords(trendingTopics)
                      /\ Keywords(twitterTrends) \subseteq Keywords(trendingTopics)
                      /\ trendingTopics # <<>>
             /\ trendSources.timeline.kind = "throw"
                   => /\ twitterTrends = <<>>
                      /\ trendingTopics = combineTrends(cryptoTrends, <<>>)
                      /\ Len(trendingTopics)
                            = Min2(TopTopics, Cardinality(Keywords(cryptoTrends)))
                      /\ \A i \in 1..Len(trendingTopics) :
                            trendingTopics[i]
                               = TopicOf(cryptoTrends, trendingTopics[i].keyword)

\* C17 witness: the market source threw, the timeline gave a topic that is
\* not in the fallback list, and the result holds the 4 fallback entries
\* and that topic.
C17_Witness ==
    /\ trendPc = "done"
    /\ trendSources.market.kind = "throw"
    /\ Keywords(twitterTrends) \ Keywords(getFallbackCryptoTrends) # {}
    /\ Len(trendingTopics) > Len(getFallbackCryptoTrends)

\* C18 (as claimed): when the market source throws and the timeline yields
\* the single topic "defi" with count 3 and average engagement 20, the result
\* holds a "defi" entry of score min(100, 3 * 10 + 20) = 50, merged with
\* nothing of the market side, beside the fallback entries.
C18_DefiScenario ==
    (/\ trendPc = "done"
     /\ trendSources.market.kind = "throw"
     /\ Len(twitterTrends) = 1
     /\ twitterTrends[1].keyword = <<"d", "e", "f", "i">>
     /\ twitterTrends[1].volume = 3
     /\ twitterTrends[1].relevanceScore = 50 * ScoreUnit)
       => /\ \E i \in 1..Len(trendingTopics) :
                /\ trendingTopics[i].keyword = <<"d", "e", "f", "i">>
                /\ trendingTopics[i].relevanceScore = 50 * ScoreUnit
                /\ trendingTopics[i].volume = 3
          /\ Keywords(getFallbackCryptoTrends) \subseteq Keywords(trendingTopics)
          /\ Len(trendingTopics) <= TopTopics

(***************************************************************************)
(*                           The slot planner                              *)
(*                                                                         *)
(* SpecPlanner follows one scheduleOptimalPosts call.  Times are seconds   *)
(* of local time counted from the midnight before the call; a day has      *)
(* Day seconds (no change of clock falls in the two days).                 *)
(***************************************************************************)
Day == 86400
optimalHours == <<9, 13, 18, 21>>
PlanDays == 2         \* for (let day = 0; day < 2; day++)
TopIdeas == 5         \* contentIdeas.slice(0, 5)

MaxIdeas == 6         \* content ideas handed to scheduleOptimalPosts

\* Math.floor(Math.random() * 60), as drawn for one slot
MinuteDraws == {0, 59}

\* The moments the call is made at: around the first and the last slot of
\* the day, on the second of a slot and one second later, and at midnight
PlanNows ==
    {0} \cup { h * 3600 + m * 60 + sec : h \in {9, 21}, m \in MinuteDraws, sec \in {0, 1} }

\* The slots in the order of the two loops
Slots == [k \in 1..(PlanDays * Len(optimalHours)) |->
            [ day  |-> (k - 1) \div Len(optimalHours),
              hour |-> optimalHours[((k - 1) % Len(optimalHours)) + 1] ]]

\* Mutant of slotTime: the day is not set (no setDate)
slotTimeSameDay(slot, minute) == slot.hour * 3600 + minute * 60

\* lines 260-262: setDate(now.getDate() + day), setHours(hour, minute, 0, 0)
slotTime(slot, minute) == slot.day * Day + slot.hour * 3600 + minute * 60

\* Array.prototype.sort((a, b) => a.getTime() - b.getTime())
sortAscending(times) ==
    LET n == Len(times)
        before(i) == {j \in 1..n : times[j] < times[i] \/ (times[j] = times[i] /\ j < i)}
    IN  [p \in 1..n |-> times[CHOOSE i \in 1..n : Cardinality(before(i)) = p - 1]]

\* Mutant of isPushed: a slot at the very moment of the call is kept
isPushedNotBefore(time, at) == time >= at

\* line 264: if (time > now)
isPushed(time, at) == time > at

\* getOptimalPostingTimes; minutes[k] is the minute drawn for slot k
getOptimalPostingTimes(at, minutes) ==
    LET all == [k \in 1..Len(Slots) |-> slotTime(Slots[k], minutes[k])]
    IN  sortAscending(SelectSeq(all, LAMBDA time : isPushed(time, at)))

\* The loop of scheduleOptimalPosts from its head (line 226), i counted from 0
PlanLoop(i) ==
    /\ planIndex' = i
    /\ planPc' = IF i < Min2(planIdeas, TopIdeas) /\ i < Len(optimalTimes')
                 THEN "createPost"
                 ELSE "done"

\* lines 220-226
PlanBegin ==
    /\ planPc = "start"
    /\ \E minutes \in [1..Len(Slots) -> MinuteDraws] :
          optimalTimes' = getOptimalPostingTimes(planNow, minutes)
    /\ PlanLoop(0)
    /\ UNCHANGED <<planNow, planIdeas, scheduledCount, createdPosts, markedUsed>>
    /\ UNCHANGED outsidePlanner

\* Mutant of CreatePostSettles: the idea is marked used whether or not the
\* post was created
CreatePostSettlesMarksAnyway ==
    /\ planPc = "createPost"
    /\ \/ /\ createdPosts' = Append(createdPosts,
                                      [ idea |-> planIndex + 1,
                                        scheduledFor |-> optimalTimes[planIndex + 1] ])
          /\ planPc' = "markUsed"
          /\ UNCHANGED <<planIndex, optimalTimes>>
       \/ /\ planPc' = "markUsed"
          /\ UNCHANGED <<createdPosts, planIndex, optimalTimes>>
    /\ UNCHANGED <<planNow, planIdeas, scheduledCount, markedUsed>>
    /\ UNCHANGED outsidePlanner

\* storage.createPost (line 231) settles; a rejection goes to the catch of line 242
CreatePostSettles ==
    /\ planPc = "createPost"
    /\ \/ /\ createdPosts' = Append(createdPosts,
                                      [ idea |-> planIndex + 1,
                                        scheduledFor |-> optimalTimes[planIndex + 1] ])
          /\ planPc' = "markUsed"
          /\ UNCHANGED <<planIndex, optimalTimes>>
       \/ /\ UNCHANGED <<createdPosts, optimalTimes>>
          /\ PlanLoop(planIndex + 1)
    /\ UNCHANGED <<planNow, planIdeas, scheduledCount, markedUsed>>
    /\ UNCHANGED outsidePlanner

\* storage.markContentIdeaAsUsed (line 240) settles, then scheduledCount++
MarkUsedSettles ==
    /\ planPc = "markUsed"
    /\ \/ /\ markedUsed' = markedUsed \cup {planIndex + 1}
          /\ scheduledCount' = scheduledCount + 1
       \/ UNCHANGED <<markedUsed, scheduledCount>>
    /\ UNCHANGED optimalTimes
    /\ PlanLoop(planIndex + 1)
    /\ UNCHANGED <<planNow, planIdeas, createdPosts>>
    /\ UNCHANGED outsidePlanner

InitPlanner ==
    /\ InitEngine
    /\ InitHandlingIdle
    /\ InitLateIdle
    /\ InitGenIdle
    /\ InitTrendsIdle
    /\ InitCache
    /\ InitEngageIdle
    /\ planNow \in PlanNows
    /\ planIdeas \in 0..MaxIdeas
    /\ planPc = "start"
    /\ optimalTimes = <<>>
    /\ planIndex = 0
    /\ scheduledCount = 0
    /\ createdPosts = <<>>
    /\ markedUsed = {}

NextPlanner ==
    \/ PlanBegin
    \/ CreatePostSettles
    \/ MarkUsedSettles

SpecPlanner == InitPlanner /\ [][NextPlanner]_vars

(***************************************************************************)
(* Claims about the slot planner.                                          *)
(***************************************************************************)
\* C19: every time getOptimalPostingTimes emits, and so every scheduledFor
\* of a created post, is strictly later than now at the call; one
\* scheduleOptimalPosts call creates at most 5 posts, never more than the
\* ideas it was given nor more than the future slots, and counts no more
\* than it created.
C19_FutureSlotsAtMostFive ==
    /\ \A k \in 1..Len(optimalTimes) : optimalTimes[k] > planNow
    /\ \A k \in 1..Len(createdPosts) : createdPosts[k].scheduledFor > planNow
    /\ Len(createdPosts) <= TopIdeas
    /\ Len(createdPosts) <= planIdeas
    /\ Len(createdPosts) <= Len(optimalTimes)
    /\ scheduledCount <= Len(createdPosts)

\* C19 witness: called on the very second of the day's last slot with more
\* than 5 ideas, the planner had the 4 slots of the next day only and
\* scheduled 4 posts.
C19_Witness ==
    /\ planPc = "done"
    /\ planNow = 21 * 3600 + 59 * 60
    /\ planIdeas > TopIdeas
    /\ Len(optimalTimes) = Len(optimalHours)
    /\ scheduledCount = Len(optimalHours) /\ Len(createdPosts) = Len(optimalHours)

\* C31: the emitted slots are strictly ascending (so pairwise distinct), the
\* post created for the i-th of the first five ideas is scheduled at the i-th
\* slot, and no two created posts are scheduled at the same instant.
C31_SlotsAscendingOnePerIdea ==
    /\ \A k \in 1..(Len(optimalTimes) - 1) : optimalTimes[k] < optimalTimes[k + 1]
    /\ \A k \in 1..Len(createdPosts) :
          /\ createdPosts[k].idea \in 1..TopIdeas
          /\ createdPosts[k].idea <= Len(optimalTimes)
          /\ createdPosts[k].scheduledFor = optimalTimes[createdPosts[k].idea]
    /\ \A j, k \in 1..Len(createdPosts) :
          j # k => /\ createdPosts[j].scheduledFor # createdPosts[k].scheduledFor
                   /\ createdPosts[j].idea # createdPosts[k].idea

\* C31 witness: called after the first slot of the day, with 7 slots left,
\* the planner created a post for the first idea, failed for the second, and
\* created posts for the third, fourth and fifth.
C31_Witness ==
    /\ planPc = "done"
    /\ planNow > 9 * 3600
    /\ Len(optimalTimes) = PlanDays * Len(optimalHours) - 1
    /\ {createdPosts[k].idea : k \in 1..Len(createdPosts)} = {1, 3, 4, 5}

\* The ideas a post has been created for
IdeasWithPost == {createdPosts[k].idea : k \in 1..Len(createdPosts)}

\* C32: an idea is marked used only if a scheduled post was created for it in
\* the same scheduleOptimalPosts call: ideas beyond the fifth, ideas beyond
\* the available future slots and ideas whose post creation failed are never
\* marked used.
C32_UsedOnlyWithPost ==
    /\ markedUsed \subseteq IdeasWithPost
    /\ \A i \in markedUsed : i <= TopIdeas /\ i <= Len(optimalTimes) /\ i <= planIdeas
    /\ planPc = "markUsed" => (planIndex + 1) \in IdeasWithPost

\* C32 witness: of more than five ideas, with a slot for each of the first
\* five, one had its post creation fail and is not marked; another is marked.
C32_Witness ==
    /\ planPc = "done"
    /\ planIdeas > TopIdeas
    /\ Len(optimalTimes) >= TopIdeas
    /\ markedUsed # {}
    /\ (1..TopIdeas) \ IdeasWithPost # {}

\* C38 (as claimed): the count scheduleOptimalPosts returns equals the number
\* of scheduled posts created in the store during the call, for every pattern
\* of createPost / markContentIdeaAsUsed failures.
C38_CountIsPostsCreated ==
    planPc = "done" => scheduledCount = Len(createdPosts)

(***************************************************************************)
(*                     Content ideas, then the planner                     *)
(*                                                                         *)
(* SpecBatch follows steps 4 and 5 of analyzeTrendingPosts: one            *)
(* generateContentIdeas call and, with the ideas it returns, one           *)
(* scheduleOptimalPosts call.  aiService.generateTextContent resolves with *)
(* some text whatever the providers do; the calls on the store may reject. *)
(***************************************************************************)
TopIdeaTopics == 8    \* trendingTopics.slice(0, 8)
HighScore == 80       \* topic.relevanceScore > 80 ? 3 : 2
contentTypes == <<"tweet", "thread", "analysis", "meme">>

MaxIdeaTopics == 2    \* topics handed to generateContentIdeas

\* A topic of a score above 80 and one of the score 80
IdeaTopics == {getFallbackCryptoTrends[1], getFallbackCryptoTrends[4]}

numIdeas(topic) == IF topic.relevanceScore > HighScore * ScoreUnit THEN 3 ELSE 2

\* The two loops of generateContentIdeas from the head of the inner one
\* (line 187), at topic t (counted from 1) and i
IdeaLoop(t, i) ==
    LET topics == sliceTo(ideaTopics, TopIdeaTopics)
        next == IF t <= Len(topics) /\ i >= numIdeas(topics[t])
                THEN [topic |-> t + 1, i |-> 0]
                ELSE [topic |-> t, i |-> i]
    IN  /\ ideaAt' = next
        /\ ideaPc' = IF next.topic <= Len(topics) THEN "generate" ELSE "done"

\* lines 180-187
IdeasBegin ==
    /\ ideaPc = "start"
    /\ IdeaLoop(1, 0)
    /\ UNCHANGED <<ideaTopics, ideas, saveCalls>>
    /\ UNCHANGED <<plannerVars, outsideBatch>>

\* aiService.generateTextContent (line 190) settles and storage.saveContentIdea
\* is called (line 199)
IdeaGenSettles ==
    /\ ideaPc = "generate"
    /\ \E contentType \in {contentTypes[k] : k \in 1..Len(contentTypes)} :
          ideaPc' = "save"
    /\ saveCalls' = saveCalls + 1
    /\ UNCHANGED <<ideaTopics, ideaAt, ideas>>
    /\ UNCHANGED <<plannerVars, outsideBatch>>

\* Mutant of SaveIdeaSettles: a rejected save ends the call
SaveIdeaSettlesFailureEndsCall ==
    /\ ideaPc = "save"
    /\ \/ /\ ideas' = Append(ideas, ideaAt)
          /\ IdeaLoop(ideaAt.topic, ideaAt.i + 1)
       \/ /\ ideaPc' = "done"
          /\ UNCHANGED <<ideas, ideaAt>>
    /\ UNCHANGED <<ideaTopics, saveCalls>>
    /\ UNCHANGED <<plannerVars, outsideBatch>>

\* storage.saveContentIdea (line 199) settles: ideas.push (line 205), or the
\* catch of line 206
SaveIdeaSettles ==
    /\ ideaPc = "save"
    /\ \/ ideas' = Append(ideas, ideaAt)
       \/ UNCHANGED ideas
    /\ IdeaLoop(ideaAt.topic, ideaAt.i + 1)
    /\ UNCHANGED <<ideaTopics, saveCalls>>
    /\ UNCHANGED <<plannerVars, outsideBatch>>

\* analyzeTrendingPosts, lines 51-54: generateContentIdeas returns, its locals
\* are gone, and scheduleOptimalPosts is called with the ideas
IdeasReturn ==
    /\ ideaPc = "done"
    /\ planPc = "idle"
    /\ ideaPc' = "returned"
    /\ ideaTopics' = <<>>
    /\ ideaAt' = [topic |-> 0, i |-> 0]
    /\ ideas' = <<>>
    /\ saveCalls' = 0
    /\ planPc' = "start"
    /\ planIdeas' = Len(ideas)
    /\ planNow' \in PlanNows
    /\ UNCHANGED <<optimalTimes, planIndex, scheduledCount, createdPosts, markedUsed>>
    /\ UNCHANGED outsideBatch

InitBatch ==
    /\ InitEngine
    /\ InitHandlingIdle
    /\ InitGenIdle
    /\ InitTrendsIdle
    /\ InitPlannerIdle
    /\ InitCache
    /\ InitEngageIdle
    /\ InitManagerIdle
    /\ InitCachedIdle
    /\ ideaTopics \in UNION { [1..n -> IdeaTopics] : n \in 0..MaxIdeaTopics }
    /\ ideaPc = "start"
    /\ ideaAt = [topic |-> 0, i |-> 0]
    /\ ideas = <<>>
    /\ saveCalls = 0

NextBatch ==
    \/ IdeasBegin
    \/ IdeaGenSettles
    \/ SaveIdeaSettles
    \/ IdeasReturn
    \/ PlanBegin
    \/ CreatePostSettles
    \/ MarkUsedSettles

SpecBatch == InitBatch /\ [][NextBatch]_vars

(***************************************************************************)
(* Claims about the batches.                                               *)
(***************************************************************************)
\* How many ideas the topics call for
RECURSIVE IdeasCalledFor(_)
IdeasCalledFor(topics) ==
    IF topics = <<>> THEN 0 ELSE numIdeas(Head(topics)) + IdeasCalledFor(Tail(topics))

\* C33: a failure of the store for one item does not abort the batch.  When
\* generateContentIdeas is done it has called saveContentIdea for every idea
\* the first 8 topics call for, whatever calls failed; when
\* scheduleOptimalPosts is done it has gone through every one of the first
\* five ideas that has a slot; and neither call ends by throwing.
C33_FailuresDoNotAbort ==
    /\ ideaPc \in {"start", "generate", "save", "done", "returned"}
    /\ planPc \in {"idle", "start", "createPost", "markUsed", "done"}
    /\ ideaPc = "done"
          => /\ saveCalls = IdeasCalledFor(sliceTo(ideaTopics, TopIdeaTopics))
             /\ Len(ideas) <= saveCalls
    /\ planPc = "done"
          => planIndex = Min2(Min2(planIdeas, TopIdeas), Len(optimalTimes))

\* C33 witness: of the five ideas two topics call for, the save of the first
\* failed and the four after it were saved.
C33_Witness ==
    /\ ideaPc = "done"
    /\ saveCalls = 5
    /\ Len(ideas) = 4
    /\ ideas[1] = [topic |-> 1, i |-> 1]

(***************************************************************************)
(*                          The memory cache                               *)
(*                                                                         *)
(* SpecCache follows one MemoryCache (utils/cache.ts) and its clock, in    *)
(* milliseconds: the calls on it, none of which awaits, and the cleanup    *)
(* timer of the constructor.  Beside the Map it keeps, for the claims, the *)
(* Map that the same calls would have made without any cleanup, and the    *)
(* set call behind each entry.                                             *)
(***************************************************************************)
MaxCacheTime == 900000   \* milliseconds of clock time followed
CacheStep == 150000      \* milliseconds by which the clock advances in one step
Ttls == {150, 300}       \* ttlSeconds of the set calls

Item(value, expiry) == [ present |-> TRUE, value |-> value, expiry |-> expiry ]

\* lines 21, 42 and 57: Date.now() > item.expiry
expired(item, at) == at > item.expiry

\* get(key): the Map after the call and the value returned
get(map, key, at) ==
    IF ~map[key].present
    THEN [ map |-> map, result |-> "null" ]
    ELSE IF expired(map[key], at)
         THEN [ map |-> [map EXCEPT ![key] = NoItem], result |-> "null" ]
         ELSE [ map |-> map, result |-> map[key].value ]

\* exists(key)
exists(map, key, at) ==
    IF ~map[key].present
    THEN [ map |-> map, result |-> FALSE ]
    ELSE IF expired(map[key], at)
         THEN [ map |-> [map EXCEPT ![key] = NoItem], result |-> FALSE ]
         ELSE [ map |-> map, result |-> TRUE ]

\* set(key, value, ttlSeconds)
set(map, key, value, ttlSeconds, at) ==
    [map EXCEPT ![key] = Item(value, at + ttlSeconds * 1000)]

\* Mutant of cleanup: the sweep empties the Map
cleanupEverything(map, at) == [k \in DOMAIN map |-> NoItem]

\* cleanup()
cleanup(map, at) ==
    [k \in DOMAIN map |-> IF map[k].present /\ expired(map[k], at) THEN NoItem ELSE map[k]]

CacheFrame == UNCHANGED <<cacheNow, sweepDue>> /\ UNCHANGED outsideCache

Get(key) ==
    /\ cache' = get(cache, key, cacheNow).map
    /\ unswept' = get(unswept, key, cacheNow).map
    /\ cacheOut' = [ op |-> "get", key |-> key,
                     result |-> get(cache, key, cacheNow).result,
                     unswept |-> get(unswept, key, cacheNow).result ]
    /\ UNCHANGED lastSet
    /\ CacheFrame

Exists(key) ==
    /\ cache' = exists(cache, key, cacheNow).map
    /\ unswept' = exists(unswept, key, cacheNow).map
    /\ cacheOut' = [ op |-> "exists", key |-> key,
                     result |-> exists(cache, key, cacheNow).result,
                     unswept |-> exists(unswept, key, cacheNow).result ]
    /\ UNCHANGED lastSet
    /\ CacheFrame

Set(key, value, ttlSeconds) ==
    /\ cache' = set(cache, key, value, ttlSeconds, cacheNow)
    /\ unswept' = set(unswept, key, value, ttlSeconds, cacheNow)
    /\ lastSet' = [lastSet EXCEPT ![key] = [ present |-> TRUE, value |-> value,
                                             at |-> cacheNow, ttlSeconds |-> ttlSeconds ]]
    /\ cacheOut' = [ op |-> "set", key |-> key, result |-> "null", unswept |-> "null" ]
    /\ CacheFrame

\* del(key)
Del(key) ==
    /\ cache' = [cache EXCEPT ![key] = NoItem]
    /\ unswept' = [unswept EXCEPT ![key] = NoItem]
    /\ lastSet' = [lastSet EXCEPT ![key] = NoSet]
    /\ cacheOut' = [ op |-> "del", key |-> key, result |-> "null", unswept |-> "null" ]
    /\ CacheFrame

\* flush()
Flush ==
    /\ cache' = [k \in CacheKeys |-> NoItem]
    /\ unswept' = [k \in CacheKeys |-> NoItem]
    /\ lastSet' = [k \in CacheKeys |-> NoSet]
    /\ cacheOut' = [ op |-> "flush", key |-> "none", result |-> "null", unswept |-> "null" ]
    /\ CacheFrame

\* The cleanup timer (lines 12-14) fires when it is due
Sweep ==
    /\ cacheNow = sweepDue
    /\ cache' = cleanup(cache, cacheNow)
    /\ sweepDue' = sweepDue + SweepPeriod
    /\ cacheOut' = [ op |-> "cleanup", key |-> "none", result |-> "null", unswept |-> "null" ]
    /\ UNCHANGED <<cacheNow, unswept, lastSet>>
    /\ UNCHANGED outsideCache

\* Time passes, but not past the moment the cleanup timer is due
CacheAdvance ==
    /\ cacheNow < sweepDue
    /\ cacheNow < MaxCacheTime
    /\ cacheNow' = Min2(cacheNow + CacheStep, sweepDue)
    /\ cacheOut' = [ op |-> "clock", key |-> "none", result |-> "null", unswept |-> "null" ]
    /\ UNCHANGED <<cache, sweepDue, unswept, lastSet>>
    /\ UNCHANGED outsideCache

InitCacheSpec ==
    /\ InitEngine
    /\ InitHandlingIdle
    /\ InitLateIdle
    /\ InitGenIdle
    /\ InitTrendsIdle
    /\ InitPlannerIdle
    /\ InitCache
    /\ InitEngageIdle

NextCache ==
    \/ \E key \in CacheKeys : Get(key)
    \/ \E key \in CacheKeys : Exists(key)
    \/ \E key \in CacheKeys, value \in CacheValues, ttlSeconds \in Ttls :
          Set(key, value, ttlSeconds)
    \/ \E key \in CacheKeys : Del(key)
    \/ Flush
    \/ Sweep
    \/ CacheAdvance

SpecCache == InitCacheSpec /\ [][NextCache]_vars

(***************************************************************************)
(* Claims about the memory cache.                                          *)
(***************************************************************************)
\* The TTL of the entry stored for a key has elapsed: more than ttlSeconds
\* have passed since the set call
Elapsed(key) == cacheNow - lastSet[key].at > lastSet[key].ttlSeconds * 1000

\* C20: a get or exists call exposes an entry only if a set call stored it
\* and its TTL has not elapsed (get returning the value set), and returns
\* what it would return had cleanup never run; a cleanup removes only
\* entries whose TTL has elapsed and changes no other.
C20_ExpiredNeverExposed ==
    [][ /\ cacheOut'.op = "get" /\ cacheOut'.result # "null"
           => /\ lastSet[cacheOut'.key].present /\ ~Elapsed(cacheOut'.key)
              /\ cacheOut'.result = lastSet[cacheOut'.key].value
        /\ cacheOut'.op = "exists" /\ cacheOut'.result = TRUE
           => lastSet[cacheOut'.key].present /\ ~Elapsed(cacheOut'.key)
        /\ cacheOut'.op \in {"get", "exists"}
           => cacheOut'.result = cacheOut'.unswept
        /\ cacheOut'.op = "cleanup"
           => \A k \in CacheKeys :
                 /\ cache'[k] # cache[k]
                       => cache[k].present /\ ~cache'[k].present /\ Elapsed(k)
      ]_vars

\* C20 witness: a get returned null for a key whose entry, expired, was still
\* in the Map (no cleanup had removed it), after a cleanup had run.
C20_Witness ==
    /\ cacheOut.op = "get" /\ cacheOut.result = "null"
    /\ lastSet[cacheOut.key].present /\ Elapsed(cacheOut.key)
    /\ \E k \in CacheKeys : unswept[k] # cache[k]
    /\ sweepDue > SweepPeriod

(***************************************************************************)
(*                     The handling calls of a cycle                       *)
(*                                                                         *)
(* SpecHandling follows one cycle that is handed as many mentions as       *)
(* handleMentions asks for and several timeline items, under budgets of    *)
(* more than one reply, with the hourly callback firing at any moment, and *)
(* keeps the history of the cycle's handleMentions call.                   *)
(***************************************************************************)
MentionCount == 5     \* getMentions(..., 5)
TimelineCount == 10   \* getHomeTimeline(..., 10)

HandlingK == 2        \* largest maxRepliesPerHour of a config of SpecHandling
HandlingScan == 2     \* timeline items one getHomeTimeline call returns here

HandlingConfigs ==
    { cfg \in [ enabled                : {TRUE},
                maxRepliesPerHour      : 1..HandlingK,
                autoReplyToMentions    : BOOLEAN,
                autoEngageWithTimeline : BOOLEAN,
                engagementThreshold    : {Threshold},
                keywords               : {<<Alpha>>} ] :
        cfg.autoReplyToMentions \/ cfg.autoEngageWithTimeline }

HandlingStep(c) ==
    \/ GetUserSettles(c)
    \/ GetMentionsReturns(c, MentionCount)
    \/ MentionGenSettles(c)
    \/ MentionReplySettles(c)
    \/ MentionSleepSettles(c)
    \/ GetTimelineReturns(c, Min2(HandlingScan, TimelineCount))
    \/ TimelineGenSettles(c)
    \/ TimelineReplySettles(c)
    \/ TimelineSleepSettles(c)
    \/ ProactiveGenSettles(c)
    \/ ProactivePostSettles(c)
    \/ ProactiveSaveSettles(c)

\* The engine some time into an hour: stopped, no cycle in flight, and the
\* replies of earlier cycles counted and recorded
Replied(n) == [i \in 1..n |-> Activity("engagement", TRUE, "reply")]

InitHandling ==
    /\ \E n \in 0..HandlingK :
          /\ replyCount = n
          /\ activities = Replied(n)
    /\ isRunning = FALSE
    /\ intervalId = NoTimer
    /\ timers = {}
    /\ cycles = [c \in CycleIds |-> NoCycle]
    /\ nextId = 1
    /\ lastOp = Op("init", 0, "init")
    /\ lastResetTime = 0
    /\ now = 0
    /\ resetDue = Hour
    /\ readOut = NoRead
    /\ recorded = 0
    /\ handling = [c \in CycleIds |-> NoCall]
    /\ InitServicesIdle

NextHandling ==
    \/ \E config \in HandlingConfigs : Start(config)
    \/ HourlyReset
    \/ \E c \in CycleIds : HandlingStep(c)

SpecHandling == InitHandling /\ [][NextHandling]_vars

(***************************************************************************)
(* Claims about the handling calls of a cycle.                             *)
(***************************************************************************)
\* The platform calls of a cycle that failed, by the event of the step
FailedPlatformCalls == {"mentionsFailed", "timelineFailed", "replyFailed", "postFailed"}

\* C21 (as claimed): every failed platform call inside a cycle (getMentions,
\* getHomeTimeline, replyToTweet for a mention or a timeline item, postTweet)
\* appends an activity record with success = false.
C21_FailedCallRecorded ==
    [][ (lastOp'.op = "cycle" /\ lastOp'.ev \in FailedPlatformCalls)
           => /\ Len(activities') > Len(activities)
              /\ \E i \in (Len(activities) + 1)..Len(activities') :
                    ~activities'[i].success ]_vars

\* The handleMentions calls that were made
MentionCalls == {c \in CycleIds : handling[c].called}

\* What is left of the hourly budget k when the call is made
LeftAtEntry(h) == Max2(0, h.budget - h.entry)

\* C25 (as claimed): a handleMentions call makes no platform call and no
\* generation call at all when replyCount >= k on entry; otherwise it fetches
\* at most 5 mentions and posts at most min(5, k - replyCount at entry)
\* replies, and it goes on to a further mention only while replyCount is
\* below k.
C25_MentionBudget ==
    \A c \in MentionCalls :
        LET h == handling[c]
        IN  /\ h.entry >= h.budget => (~h.active /\ h.posted = 0)
            /\ h.active <=> cycles[c].pc \in MentionPcs
            /\ h.active => Len(cycles[c].todo) <= MentionCount
            /\ h.posted <= Min2(MentionCount, LeftAtEntry(h))
            /\ (cycles[c].pc = "mGen" /\ lastOp = Op("cycle", c, lastOp.ev))
                  => replyCount < h.budget

\* C25 (amended): as claimed, but the bound k - replyCount at entry holds for
\* the calls during which the hourly callback has not fired; the others post
\* at most 5 replies.
C25_MentionBudgetWithinWindow ==
    \A c \in MentionCalls :
        LET h == handling[c]
        IN  /\ h.entry >= h.budget => (~h.active /\ h.posted = 0)
            /\ h.active <=> cycles[c].pc \in MentionPcs
            /\ h.active => Len(cycles[c].todo) <= MentionCount
            /\ h.posted <= MentionCount
            /\ ~h.reset => h.posted <= LeftAtEntry(h)
            /\ (cycles[c].pc = "mGen" /\ lastOp = Op("cycle", c, lastOp.ev))
                  => replyCount < h.budget

\* A call that had a budget of two left has returned after two replies, and
\* no hourly callback fired meanwhile
C25_Witness ==
    \E c \in MentionCalls :
        /\ ~handling[c].active /\ ~handling[c].reset
        /\ handling[c].budget - handling[c].entry = 2
        /\ handling[c].posted = 2

\* The awaits of handleTimelineEngagement (lines 209, 219, 227 and 247)
TimelinePcs == {"getTimeline", "tGen", "tReply", "tSleep"}

\* The part of runAutonomousCycle a cycle is in: the credentials, mention
\* handling, timeline engagement, the proactive post, the end
Phase(pc) ==
    CASE pc \in {"none", "getUser"}       -> 0
      [] pc \in MentionPcs                -> 1
      [] pc \in TimelinePcs               -> 2
      [] pc \in {"aGen", "aPost", "aSave"} -> 3
      [] OTHER                            -> 4

\* C26 (as claimed): within one handling call the replies are strictly
\* serialized: the generation for an item begins only when the list has just
\* been fetched or the pause after the previous reply (2 s after a mention
\* reply, 3 s after a timeline reply) has elapsed, and a reply call begins
\* only when its generation has settled; within one cycle mention handling
\* completes before timeline engagement begins, which completes before the
\* proactive post.
C26_RepliesSerialized ==
    [][ \A c \in CycleIds :
          lastOp' = Op("cycle", c, lastOp'.ev)
             => /\ cycles'[c].pc = "mGen" => cycles[c].pc \in {"getMentions", "mSleep"}
                /\ cycles'[c].pc = "tGen" => cycles[c].pc \in {"getTimeline", "tSleep"}
                /\ cycles'[c].pc = "mReply" => cycles[c].pc = "mGen"
                /\ cycles'[c].pc = "tReply" => cycles[c].pc = "tGen"
                /\ cycles'[c].pc = "mSleep" => cycles[c].pc = "mReply"
                /\ cycles'[c].pc = "tSleep" => cycles[c].pc = "tReply"
                /\ Phase(cycles'[c].pc) >= Phase(cycles[c].pc) ]_vars

\* How many timeline_read records the buffer holds
RECURSIVE Reads(_)
Reads(acts) ==
    IF acts = <<>>
    THEN 0
    ELSE (IF Head(acts).type = "timeline_read" THEN 1 ELSE 0) + Reads(Tail(acts))

\* C28 (as claimed): every handleTimelineEngagement call appends exactly one
\* ActivityRecord of kind timeline_read, when it returns, stating the number
\* of items scanned, regardless of how many items were acted on; a qualifying
\* item that is skipped because the budget is exhausted produces no reply, no
\* budget change and no ActivityRecord of its own.
C28_OneTimelineRead ==
    [][ \A c \in CycleIds :
          (lastOp' = Op("cycle", c, lastOp'.ev) /\ cycles[c].pc \in TimelinePcs)
             => /\ cycles'[c].pc \in TimelinePcs => Reads(activities') = Reads(activities)
                /\ cycles'[c].pc \notin TimelinePcs
                      => /\ Reads(activities') = Reads(activities) + 1
                         /\ activities' # <<>>
                         /\ activities'[Len(activities')].type = "timeline_read"
                         /\ activities'[Len(activities')].content
                               \in IF cycles[c].pc = "getTimeline"
                                   THEN 0..TimelineCount
                                   ELSE {cycles[c].n}
                /\ ( /\ cycles[c].pc = "tSleep"
                     /\ Len(cycles[c].todo) > 1
                     /\ shouldEngageWithTweet(cycles[c].todo[2], cycles[c].cfg)
                     /\ replyCount >= cycles[c].cfg.maxRepliesPerHour )
                      => /\ cycles'[c].pc \notin TimelinePcs
                         /\ replyCount' = replyCount
                         /\ Len(activities') = Len(activities) + 1 ]_vars

(***************************************************************************)
(*                  The cache manager and the Redis cache                  *)
(*                                                                         *)
(* SpecManager follows one CacheManager: the RedisCache its constructor    *)
(* builds, whose initRedis runs on from await to await, and the get and    *)
(* set calls the manager hands to the backend getCache() selects.  The     *)
(* Redis client and server are outside the repository: what a connect()    *)
(* call does and which events the client emits are open choices, and the   *)
(* server keeps a value for the ttlSeconds of its setEx.  The values are   *)
(* strings, which JSON.stringify and JSON.parse hand back unchanged.  The  *)
(* manager is followed up to the first run of the cleanup timer.           *)
(***************************************************************************)
ManagerFrame == UNCHANGED <<cacheNow, sweepDue, cacheOut, unswept>> /\ UNCHANGED outsideManager

\* initRedis, lines 79-118: import('redis') settles; without the module the
\* call returns (lines 82-85), with it the client is created, the three
\* handlers are registered and connect() is called
RedisImportSettles ==
    /\ redisPc = "import"
    /\ redisPc' \in {"unavailable", "connect"}
    /\ UNCHANGED <<useRedis, isConnected, redisData, lastEvent, mgrOut>>
    /\ UNCHANGED <<cache, lastSet>>
    /\ ManagerFrame

\* lines 115-120: the first connect() settles.  Resolved, the client has
\* emitted 'connect' (lines 105-108); rejected, it has emitted 'error' and the
\* catch of line 115 clears the flag.  Either way line 120 calls connect()
\* again.
RedisConnectSettles ==
    /\ redisPc = "connect"
    /\ \/ isConnected' = TRUE /\ lastEvent' = "connect"
       \/ isConnected' = FALSE /\ lastEvent' = "error"
    /\ redisPc' = "connectAgain"
    /\ UNCHANGED <<useRedis, redisData, mgrOut>>
    /\ UNCHANGED <<cache, lastSet>>
    /\ ManagerFrame

\* lines 120-124: the second connect() settles.  Resolved on a client that
\* was not connected, the client has emitted 'connect'; rejected, the catch
\* of line 121 clears the flag.
RedisConnectAgainSettles ==
    /\ redisPc = "connectAgain"
    /\ \/ IF isConnected
          THEN UNCHANGED <<isConnected, lastEvent>>
          ELSE isConnected' = TRUE /\ lastEvent' = "connect"
       \/ isConnected' = FALSE /\ UNCHANGED lastEvent
    /\ redisPc' = "done"
    /\ UNCHANGED <<useRedis, redisData, mgrOut>>
    /\ UNCHANGED <<cache, lastSet>>
    /\ ManagerFrame

\* lines 100-113: the client emits an event and its handler runs; it
\* reconnects only after it lost the connection
ClientEvent(ev) ==
    /\ redisPc \in {"connectAgain", "done"}
    /\ ev = "connect" => lastEvent \in {"error", "disconnect"}
    /\ ev \in {"error", "disconnect"} => lastEvent = "connect"
    /\ isConnected' = (ev = "connect")
    /\ lastEvent' = ev
    /\ UNCHANGED <<useRedis, redisPc, redisData, mgrOut>>
    /\ UNCHANGED <<cache, lastSet>>
    /\ ManagerFrame

\* CacheManager.set (lines 217-226) on the backend of getCache (lines
\* 194-196): RedisCache.set (lines 139-147) or MemoryCache.set
ManagerSet(key, value, ttlSeconds) ==
    /\ IF useRedis
       THEN /\ redisData' = IF isConnected
                            THEN set(redisData, key, value, ttlSeconds, cacheNow)
                            ELSE redisData
            /\ UNCHANGED cache
       ELSE /\ cache' = set(cache, key, value, ttlSeconds, cacheNow)
            /\ UNCHANGED redisData
    /\ lastSet' = [lastSet EXCEPT ![key] = [ present |-> TRUE, value |-> value,
                                             at |-> cacheNow, ttlSeconds |-> ttlSeconds ]]
    /\ mgrOut' = [ op |-> "set", key |-> key, result |-> "null" ]
    /\ UNCHANGED <<useRedis, isConnected, redisPc, lastEvent>>
    /\ ManagerFrame

\* CacheManager.get (lines 198-215) on the backend of getCache: RedisCache.get
\* (lines 127-137) or MemoryCache.get
ManagerGet(key) ==
    /\ IF useRedis
       THEN /\ redisData' = IF isConnected THEN get(redisData, key, cacheNow).map
                            ELSE redisData
            /\ mgrOut' = [ op |-> "get", key |-> key,
                           result |-> IF isConnected
                                      THEN get(redisData, key, cacheNow).result
                                      ELSE "null" ]
            /\ UNCHANGED cache
       ELSE /\ cache' = get(cache, key, cacheNow).map
            /\ mgrOut' = [ op |-> "get", key |-> key,
                           result |-> get(cache, key, cacheNow).result ]
            /\ UNCHANGED redisData
    /\ UNCHANGED lastSet
    /\ UNCHANGED <<useRedis, isConnected, redisPc, lastEvent>>
    /\ ManagerFrame

\* new CacheManager() (lines 188-192): both caches are built, initRedis has
\* run up to its first await, and REDIS_URL is set or not
InitManager ==
    /\ InitEngine
    /\ InitHandlingIdle
    /\ InitIdeasIdle
    /\ InitCachedIdle
    /\ InitGenIdle
    /\ InitTrendsIdle
    /\ InitPlannerIdle
    /\ InitCache
    /\ InitEngageIdle
    /\ useRedis \in BOOLEAN
    /\ isConnected = FALSE
    /\ redisPc = "import"
    /\ redisData = [k \in CacheKeys |-> NoItem]
    /\ lastEvent = NoEvent
    /\ mgrOut = NoMgrCall

NextManager ==
    \/ RedisImportSettles
    \/ RedisConnectSettles
    \/ RedisConnectAgainSettles
    \/ \E ev \in {"connect", "error", "disconnect"} : ClientEvent(ev)
    \/ \E key \in CacheKeys, value \in CacheValues, ttlSeconds \in Ttls :
          ManagerSet(key, value, ttlSeconds)
    \/ \E key \in CacheKeys : ManagerGet(key)
    \/ CacheAdvance

SpecManager == InitManager /\ [][NextManager]_vars

(***************************************************************************)
(* Claims about the cache manager.                                         *)
(***************************************************************************)
\* C34: with the Redis backend selected and the client never connected, a
\* get(key) that follows a set(key, v) within the TTL returns v.
C34_FallsBackToMemory ==
    ( /\ useRedis
      /\ lastEvent = NoEvent
      /\ mgrOut.op = "get"
      /\ lastSet[mgrOut.key].present
      /\ cacheNow < lastSet[mgrOut.key].at + lastSet[mgrOut.key].ttlSeconds * 1000 )
    => mgrOut.result = lastSet[mgrOut.key].value

\* C40: once initRedis is over and the last event of the client is
\* 'connect', isConnected is true.
C40_ConnectedAfterInit ==
    (redisPc = "done" /\ lastEvent = "connect") => isConnected

(***************************************************************************)
(*                     CacheManager.cached, memory backend                 *)
(*                                                                         *)
(* SpecCached follows a few cached(key, fn, ttlSeconds) calls of one       *)
(* manager whose backend is the memory cache.  A call reads the Map when   *)
(* it is made, and on a miss is suspended until its fn settles; other      *)
(* calls, del calls, the clock and the cleanup timer run meanwhile.        *)
(* promised[key] keeps, for every call that completed by computing a       *)
(* value, that value and the moment its TTL elapses, until a del of the    *)
(* key; a call notes at its start the values so promised and still alive.  *)
(***************************************************************************)
MaxCachedCalls == 3     \* cached calls followed

CachedFrame == UNCHANGED <<cacheNow, sweepDue, cacheOut, unswept, lastSet>> /\ UNCHANGED outsideCached

\* cached, lines 261-266: the get of line 261 reads the Map; a hit is returned
\* (lines 262-264), a miss calls fn (line 266)
CachedBegin(key, ttlSeconds) ==
    /\ Len(cachedCalls) < MaxCachedCalls
    /\ LET read == get(cache, key, cacheNow)
           owed == {p.value : p \in {q \in promised[key] : cacheNow < q.until}}
       IN  /\ cache' = read.map
           /\ cachedCalls' = Append(cachedCalls,
                 [ pc |-> IF read.result # "null" THEN "done" ELSE "fn",
                   key |-> key,
                   ttlSeconds |-> ttlSeconds,
                   result |-> read.result,
                   invoked |-> read.result = "null",
                   owed |-> owed ])
    /\ UNCHANGED promised
    /\ CachedFrame

\* cached, lines 266-268: fn settles.  Resolved, its value is stored with the
\* TTL of the call (line 267) and returned; rejected, the call rejects.
CachedFnSettles(id) ==
    /\ cachedCalls[id].pc = "fn"
    /\ \/ \E value \in CacheValues :
             /\ cache' = set(cache, cachedCalls[id].key, value,
                             cachedCalls[id].ttlSeconds, cacheNow)
             /\ cachedCalls' = [cachedCalls EXCEPT ![id].pc = "done", ![id].result = value]
             /\ promised' = [promised EXCEPT ![cachedCalls[id].key] =
                    @ \cup {[ value |-> value,
                              until |-> cacheNow + cachedCalls[id].ttlSeconds * 1000 ]}]
       \/ /\ cachedCalls' = [cachedCalls EXCEPT ![id].pc = "threw"]
          /\ UNCHANGED <<cache, promised>>
    /\ CachedFrame

\* CacheManager.del (lines 228-235) with the memory backend
ManagerDel(key) ==
    /\ cache' = [cache EXCEPT ![key] = NoItem]
    /\ promised' = [promised EXCEPT ![key] = {}]
    /\ UNCHANGED cachedCalls
    /\ CachedFrame

InitCached ==
    /\ InitEngine
    /\ InitHandlingIdle
    /\ InitLateIdle
    /\ InitGenIdle
    /\ InitTrendsIdle
    /\ InitPlannerIdle
    /\ InitCache
    /\ InitEngageIdle

NextCached ==
    \/ \E key \in CacheKeys, ttlSeconds \in Ttls : CachedBegin(key, ttlSeconds)
    \/ \E id \in 1..Len(cachedCalls) : CachedFnSettles(id)
    \/ \E key \in CacheKeys : ManagerDel(key)
    \/ Sweep
    \/ CacheAdvance

SpecCached == InitCached /\ [][NextCached]_vars

\* C39: a cached call that started while a value computed by a completed
\* cached call of its key was promised (its TTL not elapsed, no del since)
\* returns that value and does not invoke its function.
C39_CachedMemoizes ==
    \A id \in 1..Len(cachedCalls) :
       cachedCalls[id].pc = "done"
          => \A v \in cachedCalls[id].owed :
                cachedCalls[id].result = v /\ ~cachedCalls[id].invoked

(***************************************************************************)
(*                        The engagement decision                          *)
(*                                                                         *)
(* SpecEngage follows one shouldEngageWithTweet call on a tweet and a      *)
(* config drawn from the sets below.                                       *)
(***************************************************************************)
EngageTexts ==
    { <<>>,
      AlphaNews,
      <<"b", "e", "t", "a">> }

EngageKeywords ==
    { <<>>,
      <<Alpha>>,
      << <<"A", "L", "P", "H", "A">> >>,
      << <<"z", "z">>, <<"B", "e", "t", "a">> >> }

EngageMetrics ==
    { NoMetrics, Metrics(0, 0), Metrics(3, 1), Metrics(3, 2), Metrics(40, 10) }

EngageAnnotations ==
    { <<>>,
      <<Annotation(CryptoDomain, <<>>)>>,
      <<Annotation(<<"F", "i", "n", "a", "n", "c", "e">>, <<"N", "B", "A">>)>>,
      <<Annotation(<<>>, <<"B", "i", "t", "c", "o", "i", "n">>)>>,
      <<Annotation(<<"S", "p", "o", "r", "t">>, <<"N", "B", "A">>),
        Annotation(<<>>, <<"E", "t", "h", "e", "r", "e", "u", "m">>)>>,
      <<Annotation(<<"B", "i", "t", "c", "o", "i", "n">>, CryptoDomain)>>,
      <<Annotation(<<"S", "p", "o", "r", "t">>, <<"N", "B", "A">>)>> }

EngageThresholds == {Threshold, 50}

EngageConfigs ==
    [ enabled : {TRUE}, maxRepliesPerHour : {MaxK}, autoReplyToMentions : {FALSE},
      autoEngageWithTimeline : {TRUE}, engagementThreshold : EngageThresholds,
      keywords : EngageKeywords ]

\* handleTimelineEngagement, line 215
ShouldEngage ==
    /\ engageOut = NotDecided
    /\ engageOut' = [ returned |-> TRUE,
                      result |-> shouldEngageWithTweet(engageArgs.tweet, engageArgs.config) ]
    /\ UNCHANGED engageArgs
    /\ UNCHANGED outsideEngage

InitEngage ==
    /\ InitEngine
    /\ InitHandlingIdle
    /\ InitLateIdle
    /\ InitGenIdle
    /\ InitTrendsIdle
    /\ InitPlannerIdle
    /\ InitCache
    /\ \E m \in EngageMetrics, t \in EngageTexts, a \in EngageAnnotations :
         \E config \in EngageConfigs :
            engageArgs = [tweet |-> TimelineItem(m, t, a), config |-> config]
    /\ engageOut = NotDecided

NextEngage == ShouldEngage

SpecEngage == InitEngage /\ [][NextEngage]_vars

(***************************************************************************)
(* Claims about the engagement decision.                                   *)
(***************************************************************************)
\* Two code units are the same letter, whatever the case
SameLetter(a, b) ==
    \/ a = b
    \/ \E i \in 1..26 : {a, b} = {UpperCase[i], LowerCase[i]}

\* word is a substring of text, whatever the case of the letters
ContainsIgnoringCase(text, word) ==
    \E i \in 0..(Len(text) - Len(word)) :
        \A j \in 1..Len(word) : SameLetter(text[i + j], word[j])

\* The annotation is of the finance / crypto vocabulary
InVocabulary(annotation) ==
    \/ \E w \in {CryptoWord, Finance} : ContainsIgnoringCase(annotation.domain, w)
    \/ \E w \in {Bitcoin, Ethereum} : ContainsIgnoringCase(annotation.entity, w)

\* C27: shouldEngageWithTweet rejects every tweet that carries
\* public_metrics with likes + retweets below engagementThreshold; every
\* other tweet it accepts if and only if a configured keyword is a substring
\* of its text, whatever the case, or one of its annotations is of the
\* finance / crypto vocabulary.
C27_EngagementDecision ==
    engageOut.returned
       => LET tweet == engageArgs.tweet
              config == engageArgs.config
              counts == tweet.public_metrics
              below == counts.present
                       /\ counts.like_count + counts.retweet_count
                             < config.engagementThreshold
              keyword == \E k \in 1..Len(config.keywords) :
                            ContainsIgnoringCase(tweet.text, config.keywords[k])
              annotated == \E a \in 1..Len(tweet.context_annotations) :
                              InVocabulary(tweet.context_annotations[a])
          IN  /\ below => ~engageOut.result
              /\ ~below => (engageOut.result <=> (keyword \/ annotated))

\* C27 witness: a tweet without public_metrics and without any keyword match
\* was accepted for the entity of one of its annotations alone.
C27_Witness ==
    /\ engageOut.returned /\ engageOut.result
    /\ ~engageArgs.tweet.public_metrics.present
    /\ engageArgs.config.keywords = <<>>
    /\ Len(engageArgs.tweet.context_annotations) = 2

(***************************************************************************)
(* Claims about the lists of the trend aggregator.                         *)
(***************************************************************************)
\* The scores of the list do not increase along it
NonIncreasing(topics) ==
    \A i \in 1..(Len(topics) - 1) : topics[i].relevanceScore >= topics[i + 1].relevanceScore

\* C29: combineTrends returns at most 20 topics in non-increasing
\* relevanceScore order, no keyword appears twice in the result, and every
\* relevanceScore in the result lies between 0 and 150.
C29_CombinedRanked ==
    trendPc = "done"
       => /\ Len(trendingTopics) <= TopTopics
          /\ NonIncreasing(trendingTopics)
          /\ \A i, j \in 1..Len(trendingTopics) :
                i # j => trendingTopics[i].keyword # trendingTopics[j].keyword
          /\ \A i \in 1..Len(trendingTopics) :
                /\ trendingTopics[i].relevanceScore >= 0
                /\ trendingTopics[i].relevanceScore <= 150 * ScoreUnit

\* C29 witness: the two sources gave more than 20 keywords, the result holds
\* 20 topics, and a timeline topic stands in it between topics of a higher
\* and of a lower score.
C29_Witness ==
    /\ trendPc = "done"
    /\ Cardinality(Keywords(cryptoTrends) \cup Keywords(twitterTrends)) > TopTopics
    /\ Len(trendingTopics) = TopTopics
    /\ \E i \in 2..(TopTopics - 1) :
          /\ trendingTopics[i].keyword \in Keywords(twitterTrends)
          /\ trendingTopics[i - 1].relevanceScore > trendingTopics[i].relevanceScore
          /\ trendingTopics[i].relevanceScore > trendingTopics[i + 1].relevanceScore

\* The timeline items that hold the keyword, whatever the case of their text
ItemsWith(tweets, keyword) ==
    {i \in 1..Len(tweets) : ContainsIgnoringCase(tweets[i].text, keyword)}

\* Likes plus retweets of the listed items, those without metrics counting 0
RECURSIVE TotalEngagement(_, _)
TotalEngagement(tweets, items) ==
    IF items = {}
    THEN 0
    ELSE LET i == CHOOSE i \in items : TRUE
         IN  (IF tweets[i].hasMetrics THEN tweets[i].likes + tweets[i].retweets ELSE 0)
                + TotalEngagement(tweets, items \ {i})

\* C30: analyzeTwitterTrends returns only vocabulary keywords that occur in
\* at least 2 of the timeline items, each with volume = its count and
\* relevanceScore = min(100, 10 * count + average engagement of its matching
\* items), in non-increasing score order and at most 15 topics.
C30_TimelineTopics ==
    trendPc = "done"
       => /\ Len(twitterTrends) <= TopTwitter
          /\ NonIncreasing(twitterTrends)
          /\ \A i \in 1..Len(twitterTrends) :
                LET topic == twitterTrends[i]
                    tweets == trendSources.timeline.list
                    items == ItemsWith(tweets, topic.keyword)
                    count == Cardinality(items)
                IN  /\ \E k \in 1..Len(CRYPTO_KEYWORDS) : topic.keyword = CRYPTO_KEYWORDS[k]
                    /\ count >= 2
                    /\ topic.volume = count
                    /\ IF 10 * count * count + TotalEngagement(tweets, items) >= 100 * count
                       THEN topic.relevanceScore = 100 * ScoreUnit
                       ELSE topic.relevanceScore * count
                               = (10 * count * count + TotalEngagement(tweets, items))
                                    * ScoreUnit

\* C30 witness: more than 15 keywords occur in two items or more, and 15
\* topics are returned, of unequal scores.
C30_Witness ==
    /\ trendPc = "done"
    /\ Len(twitterTrends) = TopTwitter
    /\ Cardinality({k \in 1..Len(CRYPTO_KEYWORDS) :
                       Cardinality(ItemsWith(trendSources.timeline.list,
                                             CRYPTO_KEYWORDS[k])) >= 2}) > TopTwitter
    /\ twitterTrends[1].relevanceScore > twitterTrends[TopTwitter].relevanceScore

(***************************************************************************)
(* Claims about the timers, the mentions and the proactive post of the     *)
(* engine.                                                                 *)
(***************************************************************************)
\* C35: whenever isRunning is false no recurring timer is armed, and at any
\* time at most one is armed, the one intervalId names (the one stop() would
\* clear).
C35_TimerOnlyWhileRunning ==
    /\ ~isRunning => timers = {}
    /\ Cardinality(timers) <= 1
    /\ \A t \in timers : t.id = intervalId

\* The records of the successful replies to the mention id
RepliesTo(id) ==
    {k \in 1..Len(activities) :
        /\ activities[k].type = "mention_reply"
        /\ activities[k].success
        /\ activities[k].content = id}

\* C36: across the cycles of a run no mention is successfully replied to
\* more than once.
C36_MentionRepliedOnce ==
    \A id \in 1..MaxMentions : Cardinality(RepliesTo(id)) <= 1

\* C37: no auto_post record with success = false is appended in an attempt
\* whose postTweet the platform accepted, also when it is the createPost
\* after it that failed.
C37_FailureMeansNoPost ==
    [][ (lastOp'.op = "cycle" /\ lastOp'.ev = "saveFailed")
           => ~ \E k \in 1..Len(activities') :
                   /\ k > Len(activities)
                   /\ activities'[k].type = "auto_post"
                   /\ ~activities'[k].success ]_vars

=============================================================================
